---- MODULE Spec2Model ----
(***************************************************************************)
(* Multibank aggregation backend: AggregationService (get_accounts,        *)
(* get_balances, get_transactions), the /transactions/aggregate route,     *)
(* ConsentService, TokenService and AccountLinkingService, for one client. *)
(* Every awaited gateway call of an operation is one step; the bank        *)
(* gateway's answer is chosen by the environment.                          *)
(* Spec, SpecOnce and SpecLive run the operations; SpecAwait runs          *)
(* get_accounts with a call's issue and its answer as separate steps;      *)
(* SpecToken runs TokenCache and TokenService against a clock;             *)
(* SpecTasks runs two overlapping get_bank_token callers;                  *)
(* SpecNetWorth, SpecSummary, SpecUnwrap, SpecNormalize, SpecBalance and   *)
(* SpecParsed apply the net-worth selection, the summary's placeholder     *)
(* decision, the response unwrapping, the account and balance normalizers  *)
(* and the per-bank append loop of get_accounts to bounded inputs.         *)
(* SpecSelect applies the account-id selection of get_balances, and        *)
(* SpecClients follows the bank clients a call opens and closes;           *)
(* SpecConsent and SpecLinking run ConsentService and                      *)
(* AccountLinkingService on their own; SpecRate runs RateLimitMiddleware   *)
(* against a clock.                                                        *)
(***************************************************************************)
EXTENDS Integers, Sequences, FiniteSets, TLC

\* ------------------------------------------------------------------ bounds
MaxLinked == 2

\* ------------------------------------------------------- values of the code
None == "None"
Banks == {"vbank", "abank", "sbank"}
\* banks whose credentials a deployment may configure
ConfigurableBanks == {"vbank"}
\* banks in which the client links accounts
LinkBanks == {"vbank", "abank"}
\* (account_number, account_id) pairs a client may link
LinkChoices == {<<"n1", None>>, <<"n1", "a2">>, <<"a1", None>>}

\* raw account lists a bank may answer with (ids of the records, in order)
AccountLists == {<< >>, <<"a1">>}
\* raw balance lists for one account (balance types of the records)
BalanceLists == {<< >>, <<"interimBooked">>}
\* raw transaction lists for one account (transaction ids)
TransactionLists == {<< >>, <<"t1">>}

DefaultPermissions == "ReadAccountsDetail,ReadBalances,ReadTransactions"

\* no service function called yet
NoCall == [op |-> None]
\* no cached token for a bank (Python's None as a cache entry or token data)
NoEntry == [access_token |-> None, expires_in |-> 0, expires_at |-> 0]

\* no consent response (the request raised, or none was made)
NoResponse == [status |-> None, consent_id |-> None, auto_approved |-> FALSE]

VARIABLES
    settings,          \* per bank: is client_id / client_secret non-empty
    _linked_accounts,  \* AccountLinkingService._linked_accounts[client]
    _consent_ids,      \* ConsentService._consent_ids[(client, bank)]
    _tokens,           \* TokenCache as the operations see it: bank has a valid token
    top,               \* the public operation in progress
    pc,                \* position inside it
    ret,               \* where the running get_accounts returns to
    arg_bank_codes,    \* bank_codes argument of the public operation
    arg_account_ids,   \* account_ids argument of the public operation
    bank_codes,        \* get_accounts: the selected banks
    todo,              \* get_accounts: banks not yet processed
    bank_code,         \* bank of the running pipeline
    consent_id,        \* local consent_id of the running pipeline
    consent_response,  \* local consent_response of the consent handler
    all_accounts,      \* result of get_accounts
    account_ids,       \* get_balances/get_transactions: ids to query
    accounts_by_bank,  \* ordered mapping bank -> list of ids
    acc_ids,           \* ids of the current bank still to query
    all_records,       \* all_balances / all_transactions
    log,               \* gateway calls issued by the public operation
    raised,            \* exception that escaped the public operation
    result,            \* value returned by the public operation
    now,               \* datetime.now(), in seconds
    _token_cache,      \* TokenCache._tokens: bank -> cached entry
    call,              \* the service function called last, with its arguments
    value              \* what that call returned

envVars == <<settings, _linked_accounts, _consent_ids, _tokens>>
gaVars == <<bank_codes, todo, all_accounts>>
gbVars == <<account_ids, accounts_by_bank, acc_ids, all_records>>
vars == <<settings, _linked_accounts, _consent_ids, _tokens, top, pc, ret,
          arg_bank_codes, arg_account_ids, bank_codes, todo, bank_code,
          consent_id, consent_response, all_accounts, account_ids,
          accounts_by_bank, acc_ids, all_records, log, raised, result,
          now, _token_cache, call, value>>
\* the state of the services called on their own
svcVars == <<now, _token_cache, call, value>>
\* the state of the orchestrator's operations
opVars == <<settings, _linked_accounts, _consent_ids, _tokens, top, pc, ret,
            arg_bank_codes, arg_account_ids, bank_codes, todo, bank_code,
            consent_id, consent_response, all_accounts, account_ids,
            accounts_by_bank, acc_ids, all_records, log, raised, result>>

\* ------------------------------------------------------------ helpers
Range(s) == {s[i] : i \in 1..Len(s)}

\* variant: a client id alone counts as credentials
_has_bank_client_id(b) ==
    IF b \in Banks THEN settings[b].client_id ELSE FALSE

\* _has_bank_credentials: both the client id and the secret are non-empty
_has_bank_credentials(b) ==
    IF b \in Banks THEN settings[b].client_id /\ settings[b].client_secret
    ELSE FALSE

\* AccountLinkingService.get_linked_accounts
get_linked_accounts == _linked_accounts

\* AccountLinkingService.get_banks_for_client
get_banks_for_client == {get_linked_accounts[i].bank : i \in
                           {j \in 1..Len(get_linked_accounts) : get_linked_accounts[j].active}}

\* ConsentService.get_consent_id
get_consent_id(b) == _consent_ids[b]

\* AggregationService._normalize_account on a record carrying only its id
_normalize_account(id, b) ==
    [account_id |-> id, bank |-> b, currency |-> "RUB",
     account_type |-> "Personal", src |-> "api"]

\* the demo Account built from a linked account
DemoAccount(acc) ==
    [account_id |-> acc.account_number, bank |-> acc.bank, currency |-> "RUB",
     account_type |-> "current", src |-> "demo"]

\* one entry of the call log: the call (kind, bank, consent id sent,
\* permissions asked, account queried), the Consent Store's entry for the
\* bank when the call was issued, and the payload the gateway answered with
Call(kind, b, cid, perms, acc, data) ==
    [kind |-> kind, bank |-> b, consent_id |-> cid, permissions |-> perms,
     account |-> acc, stored |-> _consent_ids[b], data |-> data]

\* ------------------------------------------------------------ Init
\* settings in which only the banks of C may have a client id or secret
CredentialSettings(C) ==
    {s \in [Banks -> [client_id : BOOLEAN, client_secret : BOOLEAN]] :
        \A b \in Banks \ C : ~s[b].client_id /\ ~s[b].client_secret}

InitOps(C, L) ==
    /\ settings \in CredentialSettings(C)
    /\ _linked_accounts \in L
    /\ _consent_ids = [b \in Banks |-> None]
    /\ _tokens = [b \in Banks |-> FALSE]
    /\ top = "idle"
    /\ pc = "idle"
    /\ ret = None
    /\ arg_bank_codes = [given |-> FALSE, items |-> {}]
    /\ arg_account_ids = [given |-> FALSE, items |-> {}]
    /\ bank_codes = {}
    /\ todo = {}
    /\ bank_code = None
    /\ consent_id = None
    /\ consent_response = NoResponse
    /\ all_accounts = << >>
    /\ account_ids = {}
    /\ accounts_by_bank = << >>
    /\ acc_ids = << >>
    /\ all_records = << >>
    /\ log = << >>
    /\ raised = None
    /\ result = << >>

\* TokenCache.__init__: no entries; no service function called yet
InitWith(C, L) ==
    /\ InitOps(C, L)
    /\ now = 0
    /\ _token_cache = [b \in Banks |-> NoEntry]
    /\ call = NoCall
    /\ value = NoEntry

Init == InitWith(ConfigurableBanks, {<< >>})

\* ------------------------------------------------- AccountLinkingService
LinkedAccount(b, number, aid) ==
    [id |-> b \o "-" \o number, bank |-> b, account_number |-> number,
     account_id |-> aid, active |-> TRUE]

\* variant: every call appends an entry
link_account_append(b, number, aid) ==
    Append(_linked_accounts, LinkedAccount(b, number, aid))

\* link_account: update the entry with the same id in place, else append
link_account(b, number, aid) ==
    LET new == LinkedAccount(b, number, aid)
        hit == {i \in 1..Len(_linked_accounts) : _linked_accounts[i].id = new.id}
    IN  IF hit # {}
        THEN [i \in 1..Len(_linked_accounts) |->
                 IF i = CHOOSE j \in hit : \A k \in hit : j <= k
                 THEN new ELSE _linked_accounts[i]]
        ELSE Append(_linked_accounts, new)

LinkAccount ==
    /\ UNCHANGED svcVars
    /\ consent_response' = NoResponse
    /\ pc = "idle"
    /\ \E b \in LinkBanks, ch \in LinkChoices :
          /\ Len(link_account(b, ch[1], ch[2])) <= MaxLinked
          /\ _linked_accounts' = link_account(b, ch[1], ch[2])
    /\ UNCHANGED <<settings, _consent_ids, _tokens, top, pc, ret, arg_bank_codes,
                   arg_account_ids, bank_codes, todo, bank_code, consent_id,
                   all_accounts, account_ids, accounts_by_bank, acc_ids,
                   all_records, log, raised, result>>

\* ------------------------------------------------------------ exceptions
\* an await that never completes is recorded as NeverReturns in place of an
\* exception: no except clause ends it
NeverReturns == "NeverReturns"

\* an except clause for class h catches e ("Exception" catches every class)
Catches(h, e) == e # NeverReturns /\ (h = "Exception" \/ h = e)

\* the exception that leaves the try statements whose except clauses are H
Uncaught(H, e) ==
    IF e = None \/ \E i \in 1..Len(H) : Catches(H[i], e) THEN None ELSE e

\* --------------------------------------------------------------- timeouts
\* variant: the HTTP client waits for an answer without limit
SilenceNeverEnds(bounded) == IF bounded THEN "timeout" ELSE "hang"

\* how a gateway call that gets no answer ends: inside asyncio.wait_for
\* (bounded) with TimeoutError; otherwise the HTTP client, built with
\* timeout = http_timeout_seconds, gives up and the call raises BankAPIError
SilenceEnds(bounded) == IF bounded THEN "timeout" ELSE "error"

\* ------------------------------------------------------------ TokenService
\* get_bank_token(bank): "hit" = valid cached token, no gateway call;
\* "ok" = fresh token cached and returned; "short" = fresh token with
\* expires_in <= 60, which set() stores and the following get() evicts, so
\* the caller receives None; "error"/"timeout" = the gateway call failed.
TokenOutcomes(b, bounded) ==
    IF _tokens[b] THEN {"hit"}
    ELSE {"ok", "short", "error", SilenceEnds(bounded)}

TokenOk(o) == o \in {"hit", "ok"}

TokensAfter(b, o) ==
    IF o = "ok" THEN [_tokens EXCEPT ![b] = TRUE]
    ELSE IF o = "short" THEN [_tokens EXCEPT ![b] = FALSE]
    ELSE _tokens

\* what the caller of get_bank_token sees raised ("short": None["access_token"])
ExcOfToken(o) ==
    CASE o = "error" -> "BankAPIError"
      [] o = "timeout" -> "TimeoutError"
      [] o = "hang" -> NeverReturns
      [] o = "short" -> "TypeError"
      [] OTHER -> None

TokenLog(b, o) == IF o = "hit" THEN << >> ELSE <<Call("token", b, None, None, None, << >>)>>

\* ---------------------------------------------------------- ConsentService
\* a consent id the bank issues is new: it differs from the stored one
FreshConsentId(b) == IF _consent_ids[b] = "k1" THEN "k2" ELSE "k1"

ConsentResponses(b) ==
    [status : {"approved", "pending", "rejected"},
     consent_id : {None, FreshConsentId(b)},
     auto_approved : BOOLEAN]

\* answers of the gateway's consent endpoint
ConsentOutcomes(b, bounded) ==
    [kind : {"response"}, resp : ConsentResponses(b)]
      \cup [kind : {"error", SilenceEnds(bounded)}, resp : {NoResponse}]

\* variant: any response carrying a consent id is stored
StoresAnyConsentId(c) ==
    /\ c.kind = "response"
    /\ c.resp.consent_id # None

\* request_accounts_consent stores the id of an approved response
StoresConsent(c) ==
    /\ c.kind = "response"
    /\ c.resp.consent_id # None
    /\ c.resp.status = "approved"

\* request_accounts_consent(bank, client, permissions): token, then the
\* consent call; t is the token outcome, c the consent endpoint's answer
ConsentStoreAfter(b, t, c) ==
    IF TokenOk(t) /\ StoresConsent(c)
    THEN [_consent_ids EXCEPT ![b] = c.resp.consent_id]
    ELSE _consent_ids

ConsentLog(b, perms, t) ==
    TokenLog(b, t) \o (IF TokenOk(t) THEN <<Call("consent", b, None, perms, None, << >>)>>
                       ELSE << >>)

ExcOfConsent(t, c) ==
    IF ~TokenOk(t) THEN ExcOfToken(t)
    ELSE CASE c.kind = "error" -> "BankAPIError"
           [] c.kind = "timeout" -> "TimeoutError"
           [] c.kind = "hang" -> NeverReturns
           [] OTHER -> None

\* what a gateway fetch raises
ExcOfFetch(o) ==
    CASE o.kind = "consent" -> "ConsentRequiredError"
      [] o.kind = "timeout" -> "TimeoutError"
      [] o.kind = "hang" -> NeverReturns
      [] o.kind = "error" -> "BankAPIError"
      [] o.kind = "malformed" -> "AttributeError"
      [] OTHER -> None

\* the response the caller of request_accounts_consent sees (None = raised)
ConsentReturned(t, c) ==
    IF TokenOk(t) /\ c.kind = "response" THEN c.resp ELSE NoResponse

\* ------------------------------------------ AggregationService.get_accounts
AccountsOutcomes ==
    [kind : {"ok"}, data : AccountLists]
      \cup [kind : {"consent", "error", "malformed", SilenceEnds(TRUE)},
             data : {<< >>}]

\* variant: the records of a response are appended last first
NormalizedAccountsReversed(data, b) ==
    [i \in 1..Len(data) |-> _normalize_account(data[Len(data) + 1 - i], b)]

\* for account_data in accounts_list: normalize and append, in list order
NormalizedAccounts(data, b) ==
    [i \in 1..Len(data) |-> _normalize_account(data[i], b)]

\* an Optional[list] argument: given = FALSE is Python's None
Omitted == [given |-> FALSE, items |-> {}]
Given(S) == [given |-> TRUE, items |-> S]

\* except clauses around the awaits of get_accounts, innermost first
GA_TokenHandlers == <<"Exception">>
GA_FetchHandlers == <<"ConsentRequiredError", "TimeoutError", "Exception", "Exception">>
GA_ConsentHandlers == <<"TimeoutError", "Exception", "Exception">>

BankCodeArgs == {Omitted, Given({"vbank"})}

\* variant: without bank_codes every bank is selected, linked or not
SelectedBanksAll(bc) == IF ~bc.given THEN Banks ELSE bc.items

\* bank selection at the head of get_accounts
SelectedBanks(bc) ==
    IF ~bc.given
    THEN (IF get_banks_for_client # {} THEN get_banks_for_client ELSE Banks)
    ELSE bc.items

EnterGetAccounts(bc, r) ==
    /\ bank_codes' = SelectedBanks(bc)
    /\ todo' = SelectedBanks(bc)
    /\ all_accounts' = << >>
    /\ ret' = r
    /\ bank_code' = None
    /\ consent_id' = None
    /\ pc' = "ga_loop"

StartGetAccounts ==
    /\ UNCHANGED svcVars
    /\ consent_response' = NoResponse
    /\ pc = "idle"
    /\ \E bc \in BankCodeArgs :
          /\ arg_bank_codes' = bc
          /\ EnterGetAccounts(bc, "top")
    /\ top' = "get_accounts"
    /\ arg_account_ids' = Omitted
    /\ log' = << >>
    /\ raised' = None
    /\ result' = << >>
    /\ UNCHANGED <<envVars, gbVars>>

\* the literal order of the configured banks, ["vbank", "abank", "sbank"]
BankOrder == <<"vbank", "abank", "sbank">>
BankIndex(b) == CHOOSE i \in 1..Len(BankOrder) : BankOrder[i] = b
\* the next bank of the for loop over the banks in S; the list that
\* get_banks_for_client builds from a set is taken in this same order
NextBank(S) == CHOOSE b \in S : \A c \in S : BankIndex(b) <= BankIndex(c)

\* for bank_code in bank_codes: no credentials -> continue
GA_SkipBank ==
    /\ UNCHANGED svcVars
    /\ consent_response' = NoResponse
    /\ pc = "ga_loop"
    /\ raised = None
    /\ \E b \in todo :
          /\ b = NextBank(todo)
          /\ ~_has_bank_credentials(b)
          /\ todo' = todo \ {b}
    /\ UNCHANGED <<envVars, top, pc, ret, arg_bank_codes, arg_account_ids,
                   bank_codes, bank_code, consent_id, all_accounts, gbVars,
                   log, raised, result>>

\* token_data = await TokenService.get_bank_token(bank_code)
GA_Token ==
    /\ UNCHANGED svcVars
    /\ consent_response' = NoResponse
    /\ pc = "ga_loop"
    /\ raised = None
    /\ \E b \in todo :
          /\ b = NextBank(todo)
          /\ _has_bank_credentials(b)
          /\ todo' = todo \ {b}
          /\ \E t \in TokenOutcomes(b, FALSE) :
                /\ raised' = Uncaught(GA_TokenHandlers, ExcOfToken(t))
                /\ _tokens' = TokensAfter(b, t)
                /\ log' = log \o TokenLog(b, t)
                /\ IF TokenOk(t)
                   THEN bank_code' = b /\ pc' = "ga_fetch"
                   ELSE bank_code' = None /\ pc' = "ga_loop"
    /\ UNCHANGED <<settings, _linked_accounts, _consent_ids, top, ret,
                   arg_bank_codes, arg_account_ids, bank_codes, consent_id,
                   all_accounts, gbVars, result>>

\* accounts_response = await wait_for(client.get_accounts(...)), no consent id
GA_Fetch ==
    /\ UNCHANGED svcVars
    /\ consent_response' = NoResponse
    /\ pc = "ga_fetch"
    /\ raised = None
    /\ \E o \in AccountsOutcomes :
          /\ raised' = Uncaught(GA_FetchHandlers, ExcOfFetch(o))
          /\ all_accounts' = all_accounts \o NormalizedAccounts(o.data, bank_code)
          /\ log' = Append(log, Call("accounts", bank_code, None, None, None, o.data))
          /\ IF o.kind = "consent"
             THEN pc' = "ga_consent" /\ bank_code' = bank_code
             ELSE pc' = "ga_loop" /\ bank_code' = None
    /\ UNCHANGED <<envVars, top, ret, arg_bank_codes, arg_account_ids,
                   bank_codes, todo, consent_id, gbVars, result>>

\* the retry condition of the except ConsentRequiredError handler
GA_Approved(resp) ==
    /\ resp.status = "approved"
    /\ resp.consent_id # None
    /\ resp.auto_approved

\* except ConsentRequiredError: request consent, bounded by wait_for
GA_Consent ==
    /\ UNCHANGED svcVars
    /\ pc = "ga_consent"
    /\ raised = None
    /\ \E t \in TokenOutcomes(bank_code, TRUE), c \in ConsentOutcomes(bank_code, TRUE) :
          /\ raised' = Uncaught(GA_ConsentHandlers, ExcOfConsent(t, c))
          /\ consent_response' = ConsentReturned(t, c)
          /\ _tokens' = TokensAfter(bank_code, t)
          /\ _consent_ids' = ConsentStoreAfter(bank_code, t, c)
          /\ log' = log \o ConsentLog(bank_code, DefaultPermissions, t)
          /\ IF GA_Approved(ConsentReturned(t, c))
             THEN /\ consent_id' = ConsentReturned(t, c).consent_id
                  /\ pc' = "ga_retry"
                  /\ bank_code' = bank_code
             ELSE /\ consent_id' = None
                  /\ pc' = "ga_loop"
                  /\ bank_code' = None
    /\ UNCHANGED <<settings, _linked_accounts, top, ret, arg_bank_codes,
                   arg_account_ids, gaVars, gbVars, result>>

\* variant: a retry answered consent-required asks for consent again
GA_RetryAskingAgain ==
    /\ UNCHANGED svcVars
    /\ consent_response' = NoResponse
    /\ pc = "ga_retry"
    /\ raised = None
    /\ \E o \in AccountsOutcomes :
          /\ raised' = Uncaught(GA_ConsentHandlers, ExcOfFetch(o))
          /\ all_accounts' = all_accounts \o NormalizedAccounts(o.data, bank_code)
          /\ log' = Append(log, Call("accounts", bank_code, consent_id, None, None, o.data))
          /\ IF o.kind = "consent"
             THEN pc' = "ga_consent" /\ bank_code' = bank_code
             ELSE pc' = "ga_loop" /\ bank_code' = None
    /\ consent_id' = None
    /\ UNCHANGED <<envVars, top, ret, arg_bank_codes, arg_account_ids,
                   bank_codes, todo, gbVars, result>>

\* retry of client.get_accounts with the new consent id
GA_Retry ==
    /\ UNCHANGED svcVars
    /\ consent_response' = NoResponse
    /\ pc = "ga_retry"
    /\ raised = None
    /\ \E o \in AccountsOutcomes :
          /\ raised' = Uncaught(GA_ConsentHandlers, ExcOfFetch(o))
          /\ all_accounts' = all_accounts \o NormalizedAccounts(o.data, bank_code)
          /\ log' = Append(log, Call("accounts", bank_code, consent_id, None, None, o.data))
    /\ pc' = "ga_loop"
    /\ bank_code' = None
    /\ consent_id' = None
    /\ UNCHANGED <<envVars, top, ret, arg_bank_codes, arg_account_ids,
                   bank_codes, todo, gbVars, result>>

\* variant: a demo account for every linked account, whatever its bank
DemoAccountsOfEveryBank(linked, bcs) ==
    [i \in 1..Len(linked) |-> DemoAccount(linked[i])]

\* demo accounts: one per linked account of a requested bank
DemoAccounts(linked, bcs) ==
    LET keep == SelectSeq(linked, LAMBDA acc : acc.bank \in bcs)
    IN  [i \in 1..Len(keep) |-> DemoAccount(keep[i])]

\* variant: the demo accounts are added to whatever was collected
AccountsFallbackAlways(accs, linked, bcs) == accs \o DemoAccounts(linked, bcs)

\* the fallback at the end of get_accounts
AccountsFallback(accs, linked, bcs) ==
    IF Len(accs) = 0 THEN DemoAccounts(linked, bcs) ELSE accs

\* end of the loop: fallback, then return all_accounts to the caller
GA_Return ==
    /\ UNCHANGED svcVars
    /\ consent_response' = NoResponse
    /\ pc = "ga_loop"
    /\ raised = None
    /\ todo = {}
    /\ all_accounts' = AccountsFallback(all_accounts, get_linked_accounts, bank_codes)
    /\ IF ret = "top"
       THEN pc' = "done" /\ result' = all_accounts'
       ELSE pc' = ret /\ result' = result
    /\ UNCHANGED <<envVars, top, ret, arg_bank_codes, arg_account_ids,
                   bank_codes, todo, bank_code, consent_id, gbVars, log, raised>>

\* ------------------------------------------ AggregationService.get_balances
\* except clauses around the awaits of get_balances, innermost first
\* variant: no outer "except Exception" around the token request
GB_TokenHandlersTimeoutOnly == <<"TimeoutError">>
GB_TokenHandlers == <<"TimeoutError", "Exception">>
GB_PreConsentHandlers == <<"Exception", "Exception">>
GB_FetchHandlers == <<"ConsentRequiredError", "TimeoutError", "Exception", "Exception">>
GB_ConsentHandlers == <<"Exception", "Exception">>

AccountIdArgs == {Omitted}

\* acc.get('account_id') or acc['account_number']
LinkedKey(acc) == IF acc.account_id # None THEN acc.account_id ELSE acc.account_number

\* the account_ids list built at the head of get_balances/get_transactions
QueryIds(arg, accs, linked) ==
    LET api_account_ids == {accs[i].account_id : i \in 1..Len(accs)}
        linked_account_ids == {LinkedKey(linked[i]) : i \in 1..Len(linked)}
    IN  IF ~arg.given THEN api_account_ids \cup linked_account_ids
        ELSE {id \in arg.items : id \in api_account_ids \/ id \in linked_account_ids}

\* accounts_by_bank[bank].append(id), creating the key on first use;
\* dedup = the "if acc_id not in accounts_by_bank[bank_code]" test
AddToBank(abb, b, id, dedup) ==
    LET hit == {i \in 1..Len(abb) : abb[i].bank = b}
    IN  IF hit = {} THEN Append(abb, [bank |-> b, ids |-> <<id>>])
        ELSE [i \in 1..Len(abb) |->
                IF i \in hit /\ ~(dedup /\ id \in Range(abb[i].ids))
                THEN [abb[i] EXCEPT !.ids = Append(@, id)]
                ELSE abb[i]]

RECURSIVE GroupApi(_, _, _)
GroupApi(abb, accs, ids) ==
    IF accs = << >> THEN abb
    ELSE GroupApi(IF Head(accs).account_id \in ids
                  THEN AddToBank(abb, Head(accs).bank, Head(accs).account_id, FALSE)
                  ELSE abb,
                  Tail(accs), ids)

RECURSIVE GroupLinked(_, _, _)
GroupLinked(abb, linked, ids) ==
    IF linked = << >> THEN abb
    ELSE GroupLinked(IF LinkedKey(Head(linked)) \in ids
                     THEN AddToBank(abb, Head(linked).bank, LinkedKey(Head(linked)), TRUE)
                     ELSE abb,
                     Tail(linked), ids)

\* accounts_by_bank: API accounts first, then the linked accounts
GroupByBank(accs, linked, ids) == GroupLinked(GroupApi(<< >>, accs, ids), linked, ids)

_normalize_balance(btype, id) ==
    [account_id |-> id, amount |-> "100.00", currency |-> "RUB",
     balance_type |-> btype, src |-> "api"]

NormalizedBalances(data, id) ==
    [i \in 1..Len(data) |-> _normalize_balance(data[i], id)]

DemoBalance(acc) ==
    [account_id |-> LinkedKey(acc), amount |-> "50000.00", currency |-> "RUB",
     balance_type |-> "interimBooked", src |-> "demo"]

RecordOutcomes(lists, bounded) ==
    [kind : {"ok"}, data : lists]
      \cup [kind : {"consent", "error", "malformed", SilenceEnds(bounded)},
             data : {<< >>}]

StartGetBalances ==
    /\ UNCHANGED svcVars
    /\ consent_response' = NoResponse
    /\ pc = "idle"
    /\ \E bc \in BankCodeArgs, ids \in AccountIdArgs :
          /\ arg_bank_codes' = bc
          /\ arg_account_ids' = ids
          /\ EnterGetAccounts(bc, "gb_group")
    /\ top' = "get_balances"
    /\ log' = << >>
    /\ raised' = None
    /\ result' = << >>
    /\ UNCHANGED <<envVars, gbVars>>

\* lines between the return of get_accounts and the loop over the banks
GB_Group ==
    /\ UNCHANGED svcVars
    /\ consent_response' = NoResponse
    /\ pc = "gb_group"
    /\ raised = None
    /\ account_ids' = QueryIds(arg_account_ids, all_accounts, get_linked_accounts)
    /\ accounts_by_bank' = GroupByBank(all_accounts, get_linked_accounts, account_ids')
    /\ all_records' = << >>
    /\ acc_ids' = << >>
    /\ pc' = "gb_loop"
    /\ UNCHANGED <<envVars, top, ret, arg_bank_codes, arg_account_ids, gaVars,
                   bank_code, consent_id, log, raised, result>>

GB_SkipBank ==
    /\ UNCHANGED svcVars
    /\ consent_response' = NoResponse
    /\ pc = "gb_loop"
    /\ raised = None
    /\ accounts_by_bank # << >>
    /\ ~_has_bank_credentials(Head(accounts_by_bank).bank)
    /\ accounts_by_bank' = Tail(accounts_by_bank)
    /\ UNCHANGED <<envVars, top, pc, ret, arg_bank_codes, arg_account_ids, gaVars,
                   bank_code, consent_id, account_ids, acc_ids, all_records,
                   log, raised, result>>

\* token (bounded by wait_for), then the lookup of the stored consent id
GB_Token ==
    /\ UNCHANGED svcVars
    /\ consent_response' = NoResponse
    /\ pc = "gb_loop"
    /\ raised = None
    /\ accounts_by_bank # << >>
    /\ LET b == Head(accounts_by_bank).bank IN
          /\ _has_bank_credentials(b)
          /\ \E t \in TokenOutcomes(b, TRUE) :
                /\ raised' = Uncaught(GB_TokenHandlers, ExcOfToken(t))
                /\ _tokens' = TokensAfter(b, t)
                /\ log' = log \o TokenLog(b, t)
                /\ IF TokenOk(t)
                   THEN /\ bank_code' = b
                        /\ acc_ids' = Head(accounts_by_bank).ids
                        /\ consent_id' = get_consent_id(b)
                        /\ pc' = IF get_consent_id(b) = None
                                 THEN "gb_preconsent" ELSE "gb_fetch"
                        /\ accounts_by_bank' = accounts_by_bank
                   ELSE /\ accounts_by_bank' = Tail(accounts_by_bank)
                        /\ UNCHANGED <<bank_code, acc_ids, consent_id, pc>>
    /\ UNCHANGED <<settings, _linked_accounts, _consent_ids, top, ret,
                   arg_bank_codes, arg_account_ids, gaVars, account_ids,
                   all_records, result>>

\* "if not consent_id": create a consent before the first balances call
GB_PreConsent ==
    /\ UNCHANGED svcVars
    /\ pc = "gb_preconsent"
    /\ raised = None
    /\ \E t \in TokenOutcomes(bank_code, FALSE), c \in ConsentOutcomes(bank_code, FALSE) :
          /\ raised' = Uncaught(GB_PreConsentHandlers, ExcOfConsent(t, c))
          /\ consent_response' = ConsentReturned(t, c)
          /\ _tokens' = TokensAfter(bank_code, t)
          /\ _consent_ids' = ConsentStoreAfter(bank_code, t, c)
          /\ log' = log \o ConsentLog(bank_code, DefaultPermissions, t)
          /\ consent_id' = ConsentReturned(t, c).consent_id
    /\ pc' = "gb_fetch"
    /\ UNCHANGED <<settings, _linked_accounts, top, ret, arg_bank_codes,
                   arg_account_ids, gaVars, bank_code, gbVars, result>>

\* leave the current account: next account, or next bank after the last one
NextAccount(loop) ==
    IF Len(acc_ids) > 1
    THEN /\ acc_ids' = Tail(acc_ids)
         /\ pc' = loop \o "_fetch"
         /\ UNCHANGED <<accounts_by_bank, bank_code>>
    ELSE /\ acc_ids' = << >>
         /\ accounts_by_bank' = Tail(accounts_by_bank)
         /\ bank_code' = None
         /\ pc' = loop \o "_loop"

\* variant: every consent-required answer leads to a consent request
AsksConsentAlways(o, cid) == o.kind = "consent"

\* "except ConsentRequiredError: ... if not consent_id": the handler asks for
\* a consent only when the operation holds no consent id for the bank
AsksConsent(o, cid) == o.kind = "consent" /\ cid = None

\* client.get_balances for one account, bounded by wait_for
GB_Fetch ==
    /\ UNCHANGED svcVars
    /\ consent_response' = NoResponse
    /\ pc = "gb_fetch"
    /\ raised = None
    /\ \E o \in RecordOutcomes(BalanceLists, TRUE) :
          /\ raised' = Uncaught(GB_FetchHandlers, ExcOfFetch(o))
          /\ all_records' = all_records \o NormalizedBalances(o.data, Head(acc_ids))
          /\ log' = Append(log, Call("balances", bank_code, consent_id, None, Head(acc_ids), o.data))
          /\ IF AsksConsent(o, consent_id)
             THEN pc' = "gb_consent" /\ UNCHANGED <<acc_ids, accounts_by_bank, bank_code>>
             ELSE NextAccount("gb")
    /\ UNCHANGED <<envVars, top, ret, arg_bank_codes, arg_account_ids, gaVars,
                   consent_id, account_ids, result>>

\* except ConsentRequiredError with no consent_id: request one (ReadBalances)
GB_Consent ==
    /\ UNCHANGED svcVars
    /\ pc = "gb_consent"
    /\ raised = None
    /\ \E t \in TokenOutcomes(bank_code, FALSE), c \in ConsentOutcomes(bank_code, FALSE) :
          /\ raised' = Uncaught(GB_ConsentHandlers, ExcOfConsent(t, c))
          /\ consent_response' = ConsentReturned(t, c)
          /\ _tokens' = TokensAfter(bank_code, t)
          /\ _consent_ids' = ConsentStoreAfter(bank_code, t, c)
          /\ log' = log \o ConsentLog(bank_code, "ReadBalances", t)
          /\ consent_id' = ConsentReturned(t, c).consent_id
          /\ IF ConsentReturned(t, c).consent_id # None
             THEN pc' = "gb_retry" /\ UNCHANGED <<acc_ids, accounts_by_bank, bank_code>>
             ELSE NextAccount("gb")
    /\ UNCHANGED <<settings, _linked_accounts, top, ret, arg_bank_codes,
                   arg_account_ids, gaVars, account_ids, all_records, result>>

\* retry of client.get_balances with the new consent id
GB_Retry ==
    /\ UNCHANGED svcVars
    /\ consent_response' = NoResponse
    /\ pc = "gb_retry"
    /\ raised = None
    /\ \E o \in RecordOutcomes(BalanceLists, FALSE) :
          /\ raised' = Uncaught(GB_ConsentHandlers, ExcOfFetch(o))
          /\ all_records' = all_records \o NormalizedBalances(o.data, Head(acc_ids))
          /\ log' = Append(log, Call("balances", bank_code, consent_id, None, Head(acc_ids), o.data))
    /\ NextAccount("gb")
    /\ UNCHANGED <<envVars, top, ret, arg_bank_codes, arg_account_ids, gaVars,
                   consent_id, account_ids, result>>

\* the linked accounts that get a demo balance
DemoBalances(linked, ids) ==
    LET keep == SelectSeq(linked, LAMBDA acc :
                    \/ acc.account_number \in ids
                    \/ (acc.account_id # None /\ acc.account_id \in ids))
    IN  [i \in 1..Len(keep) |-> DemoBalance(keep[i])]

\* variant: the fallback does not look at the accounts
accounts_not_consulted(accs) == FALSE

\* has_real_accounts_from_api = len(all_accounts) > 0
has_real_accounts_from_api(accs) == Len(accs) > 0

\* the fallback at the end of get_balances
BalancesFallback(bals, accs, linked, ids) ==
    IF Len(bals) = 0 /\ ~has_real_accounts_from_api(accs) /\ Len(linked) > 0
    THEN DemoBalances(linked, ids)
    ELSE bals

GB_Return ==
    /\ UNCHANGED svcVars
    /\ consent_response' = NoResponse
    /\ pc = "gb_loop"
    /\ raised = None
    /\ accounts_by_bank = << >>
    /\ all_records' = BalancesFallback(all_records, all_accounts,
                                       get_linked_accounts, account_ids)
    /\ result' = all_records'
    /\ pc' = "done"
    /\ UNCHANGED <<envVars, top, ret, arg_bank_codes, arg_account_ids, gaVars,
                   bank_code, consent_id, account_ids, accounts_by_bank, acc_ids,
                   log, raised>>

\* -------------------------------------- AggregationService.get_transactions
\* except clauses around the awaits of get_transactions, innermost first
GT_TokenHandlers == <<"TimeoutError", "Exception">>
GT_FetchHandlers == <<"ConsentRequiredError", "Exception", "Exception">>
GT_ConsentHandlers == <<"Exception", "Exception">>
GT_RetryHandlers == <<"Exception", "Exception", "Exception">>

_normalize_transaction(tid, id) ==
    [transaction_id |-> tid, account_id |-> id, currency |-> "RUB", src |-> "api"]

NormalizedTransactions(data, id) ==
    [i \in 1..Len(data) |-> _normalize_transaction(data[i], id)]

StartGetTransactions ==
    /\ UNCHANGED svcVars
    /\ consent_response' = NoResponse
    /\ pc = "idle"
    /\ \E bc \in BankCodeArgs, ids \in AccountIdArgs :
          /\ arg_bank_codes' = bc
          /\ arg_account_ids' = ids
          /\ EnterGetAccounts(bc, "gt_group")
    /\ top' = "get_transactions"
    /\ log' = << >>
    /\ raised' = None
    /\ result' = << >>
    /\ UNCHANGED <<envVars, gbVars>>

\* GET /transactions/aggregate: get_transactions(client, bank_codes=[bank])
StartAggregateTransactions ==
    /\ UNCHANGED svcVars
    /\ consent_response' = NoResponse
    /\ pc = "idle"
    /\ \E bc \in BankCodeArgs :
          /\ arg_bank_codes' = bc
          /\ EnterGetAccounts(bc, "gt_group")
    /\ arg_account_ids' = Omitted
    /\ top' = "aggregate_transactions"
    /\ log' = << >>
    /\ raised' = None
    /\ result' = << >>
    /\ UNCHANGED <<envVars, gbVars>>

GT_Group ==
    /\ UNCHANGED svcVars
    /\ consent_response' = NoResponse
    /\ pc = "gt_group"
    /\ raised = None
    /\ account_ids' = QueryIds(arg_account_ids, all_accounts, get_linked_accounts)
    /\ accounts_by_bank' = GroupByBank(all_accounts, get_linked_accounts, account_ids')
    /\ all_records' = << >>
    /\ acc_ids' = << >>
    /\ pc' = "gt_loop"
    /\ UNCHANGED <<envVars, top, ret, arg_bank_codes, arg_account_ids, gaVars,
                   bank_code, consent_id, log, raised, result>>

GT_SkipBank ==
    /\ UNCHANGED svcVars
    /\ consent_response' = NoResponse
    /\ pc = "gt_loop"
    /\ raised = None
    /\ accounts_by_bank # << >>
    /\ ~_has_bank_credentials(Head(accounts_by_bank).bank)
    /\ accounts_by_bank' = Tail(accounts_by_bank)
    /\ UNCHANGED <<envVars, top, pc, ret, arg_bank_codes, arg_account_ids, gaVars,
                   bank_code, consent_id, account_ids, acc_ids, all_records,
                   log, raised, result>>

GT_Token ==
    /\ UNCHANGED svcVars
    /\ consent_response' = NoResponse
    /\ pc = "gt_loop"
    /\ raised = None
    /\ accounts_by_bank # << >>
    /\ LET b == Head(accounts_by_bank).bank IN
          /\ _has_bank_credentials(b)
          /\ \E t \in TokenOutcomes(b, TRUE) :
                /\ raised' = Uncaught(GT_TokenHandlers, ExcOfToken(t))
                /\ _tokens' = TokensAfter(b, t)
                /\ log' = log \o TokenLog(b, t)
                /\ IF TokenOk(t)
                   THEN /\ bank_code' = b
                        /\ acc_ids' = Head(accounts_by_bank).ids
                        /\ consent_id' = get_consent_id(b)
                        /\ pc' = "gt_fetch"
                        /\ accounts_by_bank' = accounts_by_bank
                   ELSE /\ accounts_by_bank' = Tail(accounts_by_bank)
                        /\ UNCHANGED <<bank_code, acc_ids, consent_id, pc>>
    /\ UNCHANGED <<settings, _linked_accounts, _consent_ids, top, ret,
                   arg_bank_codes, arg_account_ids, gaVars, account_ids,
                   all_records, result>>

\* client.get_transactions for one account
GT_Fetch ==
    /\ UNCHANGED svcVars
    /\ consent_response' = NoResponse
    /\ pc = "gt_fetch"
    /\ raised = None
    /\ \E o \in RecordOutcomes(TransactionLists, FALSE) :
          /\ raised' = Uncaught(GT_FetchHandlers, ExcOfFetch(o))
          /\ all_records' = all_records \o NormalizedTransactions(o.data, Head(acc_ids))
          /\ log' = Append(log, Call("transactions", bank_code, consent_id, None, Head(acc_ids), o.data))
          /\ IF AsksConsent(o, consent_id)
             THEN pc' = "gt_consent" /\ UNCHANGED <<acc_ids, accounts_by_bank, bank_code>>
             ELSE NextAccount("gt")
    /\ UNCHANGED <<envVars, top, ret, arg_bank_codes, arg_account_ids, gaVars,
                   consent_id, account_ids, result>>

\* except ConsentRequiredError with no consent_id: request one (ReadTransactions)
GT_Consent ==
    /\ UNCHANGED svcVars
    /\ pc = "gt_consent"
    /\ raised = None
    /\ \E t \in TokenOutcomes(bank_code, FALSE), c \in ConsentOutcomes(bank_code, FALSE) :
          /\ raised' = Uncaught(GT_ConsentHandlers, ExcOfConsent(t, c))
          /\ consent_response' = ConsentReturned(t, c)
          /\ _tokens' = TokensAfter(bank_code, t)
          /\ _consent_ids' = ConsentStoreAfter(bank_code, t, c)
          /\ log' = log \o ConsentLog(bank_code, "ReadTransactions", t)
          /\ consent_id' = ConsentReturned(t, c).consent_id
          /\ IF ConsentReturned(t, c).consent_id # None
             THEN pc' = "gt_retry" /\ UNCHANGED <<acc_ids, accounts_by_bank, bank_code>>
             ELSE NextAccount("gt")
    /\ UNCHANGED <<settings, _linked_accounts, top, ret, arg_bank_codes,
                   arg_account_ids, gaVars, account_ids, all_records, result>>

GT_Retry ==
    /\ UNCHANGED svcVars
    /\ consent_response' = NoResponse
    /\ pc = "gt_retry"
    /\ raised = None
    /\ \E o \in RecordOutcomes(TransactionLists, FALSE) :
          /\ raised' = Uncaught(GT_RetryHandlers, ExcOfFetch(o))
          /\ all_records' = all_records \o NormalizedTransactions(o.data, Head(acc_ids))
          /\ log' = Append(log, Call("transactions", bank_code, consent_id, None, Head(acc_ids), o.data))
    /\ NextAccount("gt")
    /\ UNCHANGED <<envVars, top, ret, arg_bank_codes, arg_account_ids, gaVars,
                   consent_id, account_ids, result>>

\* return all_transactions; the route goes on with get_accounts(client_id)
GT_Return ==
    /\ UNCHANGED svcVars
    /\ consent_response' = NoResponse
    /\ pc = "gt_loop"
    /\ raised = None
    /\ accounts_by_bank = << >>
    /\ IF top = "get_transactions"
       THEN /\ result' = all_records
            /\ pc' = "done"
            /\ UNCHANGED <<gaVars, ret, bank_code, consent_id>>
       ELSE /\ result' = result
            /\ EnterGetAccounts(Omitted, "rt_demo")
    /\ UNCHANGED <<envVars, top, arg_bank_codes, arg_account_ids, gbVars, log, raised>>

\* ------------------------------------------ routers/banks.py, the route's tail
DemoTransactionCount == 5
DemoTransactionAccounts == 3

DemoTransaction(acc, i, j) ==
    [transaction_id |-> <<"demo-txn", acc.bank, i, j>>,
     account_id |-> acc.account_number, currency |-> "RUB", src |-> "demo"]

\* for i, acc in enumerate(linked_accounts[:3]): for j in range(5)
DemoTransactions(linked) ==
    LET n == IF Len(linked) < DemoTransactionAccounts THEN Len(linked)
             ELSE DemoTransactionAccounts
    IN  [k \in 1..(n * DemoTransactionCount) |->
            DemoTransaction(linked[((k - 1) \div DemoTransactionCount) + 1],
                            (k - 1) \div DemoTransactionCount,
                            (k - 1) % DemoTransactionCount)]

\* has_real_accounts = len(real_accounts) > 0
has_real_accounts(accs) == Len(accs) > 0

TransactionsFallback(txns, accs, linked) ==
    IF Len(txns) = 0 /\ Len(linked) > 0 /\ ~has_real_accounts(accs)
    THEN DemoTransactions(linked)
    ELSE txns

RT_Return ==
    /\ UNCHANGED svcVars
    /\ consent_response' = NoResponse
    /\ pc = "rt_demo"
    /\ raised = None
    /\ result' = TransactionsFallback(all_records, all_accounts, get_linked_accounts)
    /\ pc' = "done"
    /\ UNCHANGED <<envVars, top, ret, arg_bank_codes, arg_account_ids, gaVars,
                   bank_code, consent_id, gbVars, log, raised>>

\* the public operation has returned to its caller
Return ==
    /\ UNCHANGED svcVars
    /\ consent_response' = NoResponse
    /\ pc = "done" \/ raised # None
    /\ pc' = "idle"
    /\ top' = "idle"
    /\ ret' = None
    /\ arg_bank_codes' = Omitted
    /\ arg_account_ids' = Omitted
    /\ bank_codes' = {}
    /\ todo' = {}
    /\ bank_code' = None
    /\ consent_id' = None
    /\ all_accounts' = << >>
    /\ account_ids' = {}
    /\ accounts_by_bank' = << >>
    /\ acc_ids' = << >>
    /\ all_records' = << >>
    /\ log' = << >>
    /\ raised' = None
    /\ result' = << >>
    /\ UNCHANGED envVars

Next ==
    \/ LinkAccount
    \/ StartGetAccounts
    \/ GA_SkipBank
    \/ GA_Token
    \/ GA_Fetch
    \/ GA_Consent
    \/ GA_Retry
    \/ GA_Return
    \/ StartGetBalances
    \/ GB_Group
    \/ GB_SkipBank
    \/ GB_Token
    \/ GB_PreConsent
    \/ GB_Fetch
    \/ GB_Consent
    \/ GB_Retry
    \/ GB_Return
    \/ StartGetTransactions
    \/ StartAggregateTransactions
    \/ GT_Group
    \/ GT_SkipBank
    \/ GT_Token
    \/ GT_Fetch
    \/ GT_Consent
    \/ GT_Retry
    \/ GT_Return
    \/ RT_Return
    \/ Return

Spec == Init /\ [][Next]_vars

\* one public operation on a fresh process, two banks configurable
TwoBanks == {"vbank", "abank"}
\* the client has linked nothing, or one account in each of the two banks
LinkedOnce == {<< >>, <<LinkedAccount("vbank", "n1", None), LinkedAccount("abank", "n1", None)>>}
InitOnce == InitWith(TwoBanks, LinkedOnce)

NextOnce ==
    \/ StartGetAccounts
    \/ GA_SkipBank
    \/ GA_Token
    \/ GA_Fetch
    \/ GA_Consent
    \/ GA_Retry
    \/ GA_Return
    \/ StartGetBalances
    \/ GB_Group
    \/ GB_SkipBank
    \/ GB_Token
    \/ GB_PreConsent
    \/ GB_Fetch
    \/ GB_Consent
    \/ GB_Retry
    \/ GB_Return
    \/ StartGetTransactions
    \/ StartAggregateTransactions
    \/ GT_Group
    \/ GT_SkipBank
    \/ GT_Token
    \/ GT_Fetch
    \/ GT_Consent
    \/ GT_Retry
    \/ GT_Return
    \/ RT_Return

SpecOnce == InitOnce /\ [][NextOnce]_vars

\* ------------------------------------------------ TokenCache, TokenService
\* the clock stops here
MaxNow == 3
\* seconds taken off a token's lifetime when it is cached ("1 min buffer")
ExpiryBuffer == 60
\* lifetime assumed when the token response has no expires_in
DefaultExpiresIn == 86400
\* banks whose tokens are requested
TokenBanks == {"vbank", "abank"}
AccessTokens == {"t1", "t2"}
\* lifetimes the gateway may announce
ExpiresIns == {30, 60, 61, 62}
\* token responses of the gateway, with and without expires_in
TokenData ==
    [access_token : AccessTokens, expires_in : ExpiresIns]
      \cup [access_token : AccessTokens]
\* the gateway call raised BankAPIError
TokenFailure == [error : {"BankAPIError"}]

\* variant: an entry is still served at the instant it expires
ExpiredAfter(entry, t) == t > entry.expires_at

\* TokenCache.get's test "datetime.now() >= expires_at"
Expired(entry, t) == t >= entry.expires_at

\* TokenCache.get at time t: <<value returned, _tokens afterwards>>
TokenCacheGet(cache, b, t) ==
    IF cache[b] = NoEntry THEN <<NoEntry, cache>>
    ELSE IF Expired(cache[b], t) THEN <<NoEntry, [cache EXCEPT ![b] = NoEntry]>>
    ELSE <<cache[b], cache>>

\* TokenCache.set at time t
TokenCacheSet(cache, b, token_data, t) ==
    LET expires_in == IF "expires_in" \in DOMAIN token_data
                      THEN token_data.expires_in ELSE DefaultExpiresIn
    IN  [cache EXCEPT ![b] = [access_token |-> token_data.access_token,
                              expires_in |-> expires_in,
                              expires_at |-> t + (expires_in - ExpiryBuffer)]]

\* variant: clear empties the cache whatever its argument
TokenCacheClearAll(cache, target) == [b \in Banks |-> NoEntry]

\* TokenCache.clear: one bank, or every bank when the argument is None
TokenCacheClear(cache, target) ==
    [b \in Banks |-> IF target = None \/ target = b THEN NoEntry ELSE cache[b]]

\* time passes; nothing runs
Tick ==
    /\ now < MaxNow
    /\ now' = now + 1
    /\ UNCHANGED <<_token_cache, call, value, opVars>>

\* _token_cache.get(bank_code)
TC_Get ==
    /\ \E b \in TokenBanks :
          /\ call' = [op |-> "get", bank |-> b, had |-> _token_cache[b]]
          /\ value' = TokenCacheGet(_token_cache, b, now)[1]
          /\ _token_cache' = TokenCacheGet(_token_cache, b, now)[2]
    /\ UNCHANGED <<now, opVars>>

\* TokenService.clear_cache(bank_code)
TC_Clear ==
    /\ \E target \in TokenBanks \cup {None} :
          /\ call' = [op |-> "clear_cache", bank |-> target]
          /\ _token_cache' = TokenCacheClear(_token_cache, target)
    /\ value' = NoEntry
    /\ UNCHANGED <<now, opVars>>

\* variant: the cache is consulted whatever force_refresh says
CacheLookupAlways(force_refresh, cache, b, t) == TokenCacheGet(cache, b, t)

\* "if not force_refresh: cached = _token_cache.get(bank_code)":
\* <<token served from the cache, _tokens afterwards>>
CacheLookup(force_refresh, cache, b, t) ==
    IF force_refresh THEN <<NoEntry, cache>> ELSE TokenCacheGet(cache, b, t)

\* TokenService.get_bank_token(bank_code, force_refresh); answer is what
\* client.get_bank_token() returns or raises when the cache does not serve
GetBankToken ==
    /\ \E b \in TokenBanks, force_refresh \in BOOLEAN,
          answer \in TokenData \cup TokenFailure :
          LET cached == CacheLookup(force_refresh, _token_cache, b, now)
              stored == TokenCacheSet(cached[2], b, answer, now)
          IN  IF cached[1] # NoEntry
              THEN /\ call' = [op |-> "get_bank_token", bank |-> b,
                               force_refresh |-> force_refresh,
                               token_data |-> NoEntry, raised |-> None]
                   /\ value' = cached[1]
                   /\ _token_cache' = cached[2]
              ELSE IF answer \in TokenFailure
              THEN /\ call' = [op |-> "get_bank_token", bank |-> b,
                               force_refresh |-> force_refresh,
                               token_data |-> NoEntry, raised |-> answer.error]
                   /\ value' = NoEntry
                   /\ _token_cache' = cached[2]
              ELSE /\ call' = [op |-> "get_bank_token", bank |-> b,
                               force_refresh |-> force_refresh,
                               token_data |-> answer, raised |-> None]
                   /\ value' = TokenCacheGet(stored, b, now)[1]
                   /\ _token_cache' = TokenCacheGet(stored, b, now)[2]
    /\ UNCHANGED <<now, opVars>>

InitToken == InitWith({}, {<< >>})
NextToken == Tick \/ TC_Get \/ TC_Clear \/ GetBankToken
SpecToken == InitToken /\ [][NextToken]_vars

\* ------------------------------------------- AnalyticsService.get_summary
\* longest list of balances summed
MaxBalances == 3
\* the accounts the balances belong to, as (bank, account_id)
AccountKeys == {<<"vbank", "a1">>, <<"abank", "a1">>, <<"vbank", "a2">>}
\* Balance.amount strings; "" has no digits
AmountStrings == {"10.00", "25.00", ""}
BalanceTypes == {"interimBooked", "openingBooked", "closingAvailable"}
\* Balance records as get_balances returns them; from_bank is the bank whose
\* gateway answered, which the Balance type does not carry
BalanceRecords ==
    {[account_id |-> k[2], from_bank |-> k[1], amount |-> a, balance_type |-> t] :
        k \in AccountKeys, a \in AmountStrings, t \in BalanceTypes}
BalanceInputs ==
    UNION {[1..n -> BalanceRecords] : n \in 0..MaxBalances}

\* the amount string has digits left after stripping
ParsesAmount(a) == a # ""
\* float(amount_str)
ParseAmount(a) ==
    CASE a = "10.00" -> 10
      [] a = "25.00" -> 25
      [] OTHER -> 0

\* account_id not in balances_by_account
NoSelection == [amount |-> 0, balance_type |-> None]

\* variant: every later record replaces the selected one
ReplacesAlways(bt, current_type) == TRUE

\* the record's type beats the type selected so far
Replaces(bt, current_type) ==
    \/ bt = "interimBooked" /\ current_type # "interimBooked"
    \/ bt = "openingBooked" /\ current_type \notin {"interimBooked", "openingBooked"}

\* one pass of the loop over balances
SelectBalance(by_account, balance) ==
    IF ~ParsesAmount(balance.amount) THEN by_account
    ELSE IF by_account[balance.account_id] = NoSelection
            \/ Replaces(balance.balance_type,
                        by_account[balance.account_id].balance_type)
    THEN [by_account EXCEPT ![balance.account_id] =
             [amount |-> ParseAmount(balance.amount),
              balance_type |-> balance.balance_type]]
    ELSE by_account

RECURSIVE SelectBalances(_, _)
SelectBalances(by_account, balances) ==
    IF balances = << >> THEN by_account
    ELSE SelectBalances(SelectBalance(by_account, Head(balances)), Tail(balances))

AccountIdsOf(keys) == {k[2] : k \in keys}

\* balances_by_account after the loop
BalancesByAccount(balances) ==
    SelectBalances([id \in AccountIdsOf(AccountKeys) |-> NoSelection], balances)

RECURSIVE SumAmounts(_, _)
SumAmounts(by_account, ids) ==
    IF ids = {} THEN 0
    ELSE LET id == CHOOSE x \in ids : TRUE
         IN  by_account[id].amount + SumAmounts(by_account, ids \ {id})

\* no summary computed yet
NoSummary ==
    [done |-> FALSE, net_worth |-> 0,
     balances_by_account |-> [id \in AccountIdsOf(AccountKeys) |-> NoSelection]]

\* get_summary from the balances on: select one balance per account, sum
NetWorth ==
    /\ call.op = "get_summary"
    /\ ~value.done
    /\ value' = [done |-> TRUE,
                 net_worth |-> SumAmounts(BalancesByAccount(call.balances),
                                          AccountIdsOf(AccountKeys)),
                 balances_by_account |-> BalancesByAccount(call.balances)]
    /\ UNCHANGED <<now, _token_cache, call, opVars>>

InitNetWorth ==
    /\ InitOps({}, {<< >>})
    /\ now = 0
    /\ _token_cache = [b \in Banks |-> NoEntry]
    /\ call \in [op : {"get_summary"}, balances : BalanceInputs]
    /\ value = NoSummary

NextNetWorth == NetWorth
SpecNetWorth == InitNetWorth /\ [][NextNetWorth]_vars

\* ------------------------------------------------- response unwrapping
\* JSON values of a response field: key absent, null, a list of records, a
\* single mapping (one record), a non-empty string
Absent == [type |-> "absent", items |-> << >>]
EmptyList == [type |-> "list", items |-> << >>]
JsonValues ==
    {Absent, [type |-> "null", items |-> << >>], EmptyList,
     [type |-> "list", items |-> <<"r1">>],
     [type |-> "list", items |-> <<"r2", "r3">>],
     [type |-> "dict", items |-> <<"r4">>],
     [type |-> "str", items |-> << >>]}
\* the "data" field: absent, null, or a mapping with its singular and plural
\* entries
DataSections ==
    [type : {"absent", "null"}, singular : {Absent}, plural : {Absent}]
      \cup [type : {"dict"}, singular : JsonValues, plural : JsonValues]
\* gateway responses: the data field and the top-level plural field
Responses == [data : DataSections, plural : JsonValues]
FetchOps == {"accounts", "balances", "transactions"}

\* Python truth value
Truthy(v) ==
    CASE v.type = "list" -> v.items # << >>
      [] v.type \in {"dict", "str"} -> TRUE
      [] OTHER -> FALSE

\* d.get(key, default) on the entry v of key
Get(v, default) == IF v.type = "absent" THEN default ELSE v

\* [v] for a single mapping v
Wrapped(v) == [type |-> "list", items |-> v.items]

\* "if not isinstance(x, list): x = []"
EnsureList(v) == IF v.type = "list" THEN v.items ELSE << >>

\* get_accounts: data.account (list or single mapping), else top-level accounts
UnwrapAccounts(resp) ==
    LET account_data == resp.data.singular
        nested == IF resp.data.type = "dict" /\ Truthy(account_data)
                  THEN (IF account_data.type = "list" THEN account_data
                        ELSE IF account_data.type = "dict" THEN Wrapped(account_data)
                        ELSE EmptyList)
                  ELSE EmptyList
        accounts_list == IF ~Truthy(nested) THEN Get(resp.plural, EmptyList)
                         ELSE nested
    IN  EnsureList(accounts_list)

\* get_balances / get_transactions: data_section = response.get("data", {})
UnwrapRecords(resp) ==
    LET in_data == Get(resp.data.plural, Get(resp.data.singular, EmptyList))
        records_list ==
            IF resp.data.type \in {"dict", "absent"}
            THEN (IF in_data.type = "dict" THEN Wrapped(in_data) ELSE in_data)
            ELSE Get(resp.plural, EmptyList)
    IN  EnsureList(records_list)

UnwrapResponse(op, resp) ==
    IF op = "accounts" THEN UnwrapAccounts(resp) ELSE UnwrapRecords(resp)

\* nothing unwrapped yet
NoList == [done |-> FALSE, items |-> << >>]

\* the unwrapping step of one fetch
Unwrap ==
    /\ call.op \in FetchOps
    /\ ~value.done
    /\ value' = [done |-> TRUE, items |-> UnwrapResponse(call.op, call.response)]
    /\ UNCHANGED <<now, _token_cache, call, opVars>>

InitUnwrap ==
    /\ InitOps({}, {<< >>})
    /\ now = 0
    /\ _token_cache = [b \in Banks |-> NoEntry]
    /\ call \in [op : FetchOps, response : Responses]
    /\ value = NoList

NextUnwrap == Unwrap
SpecUnwrap == InitUnwrap /\ [][NextUnwrap]_vars

\* ------------------------------------------------- account normalization
\* a key that the payload does not have
NoKey == "<absent>"
\* raw account payloads: the id and type under either key style, the currency
AccountPayloads ==
    [accountId : {NoKey, "", "a1"}, account_id : {NoKey, "", "a1"},
     accountType : {NoKey, "", "Business"}, account_type : {NoKey, "", "Business"},
     currency : {NoKey, "USD"}]

\* d.get(key): None when the key is absent
GetOrNone(v) == IF v = NoKey THEN None ELSE v
\* d.get(key, default)
GetOr(v, default) == IF v = NoKey THEN default ELSE v
\* Python's "x or y" on strings and None
Or(x, y) == IF x = None \/ x = "" THEN y ELSE x

\* AggregationService._normalize_account on the whole payload
NormalizeAccountData(account_data, b) ==
    [account_id |-> Or(GetOrNone(account_data.accountId),
                       GetOr(account_data.account_id, "")),
     bank |-> b,
     currency |-> GetOr(account_data.currency, "RUB"),
     account_type |-> Or(GetOrNone(account_data.accountType),
                         GetOr(account_data.account_type, "Personal"))]

\* nothing normalized yet
NoAccount == [account_id |-> None, bank |-> None, currency |-> None,
              account_type |-> None]

NormalizeAccount ==
    /\ call.op = "_normalize_account"
    /\ value = NoAccount
    /\ value' = NormalizeAccountData(call.account_data, call.bank_code)
    /\ UNCHANGED <<now, _token_cache, call, opVars>>

InitNormalize ==
    /\ InitOps({}, {<< >>})
    /\ now = 0
    /\ _token_cache = [b \in Banks |-> NoEntry]
    /\ call \in [op : {"_normalize_account"}, account_data : AccountPayloads,
                 bank_code : {"vbank", "abank"}]
    /\ value = NoAccount

NextNormalize == NormalizeAccount
SpecNormalize == InitNormalize /\ [][NextNormalize]_vars

\* ------------------------------------------------------------- scheduling
\* one deployment at a time with accounts linked in vbank and in sbank
LinkedLive ==
    {<<LinkedAccount("vbank", "n1", None), LinkedAccount("sbank", "n1", None)>>}
InitLive == InitWith({"vbank"}, LinkedLive)
\* the event loop resumes an operation whenever the call it awaits has ended
SpecLive == InitLive /\ [][NextOnce]_vars /\ WF_vars(NextOnce)

\* --------------------------------------- get_accounts, one step per await
\* the calls of get_accounts' loop taken apart into the moment a call is
\* issued and the moment its await ends; pc = "aw_token" / "aw_fetch" while
\* the token call / the accounts call of bank_code is outstanding, and the
\* log gets an entry when a call is issued
IssueFetch(b) ==
    /\ pc' = "aw_fetch"
    /\ log' = Append(log, Call("accounts", b, None, None, None, << >>))

\* for bank_code in bank_codes: the loop body runs up to its first await
AW_IssueToken ==
    /\ UNCHANGED svcVars
    /\ consent_response' = NoResponse
    /\ pc = "ga_loop"
    /\ raised = None
    /\ \E b \in todo :
          /\ b = NextBank(todo)
          /\ _has_bank_credentials(b)
          /\ todo' = todo \ {b}
          /\ bank_code' = b
          /\ IF _tokens[b]
             THEN IssueFetch(b)
             ELSE /\ pc' = "aw_token"
                  /\ log' = Append(log, Call("token", b, None, None, None, << >>))
    /\ UNCHANGED <<envVars, top, ret, arg_bank_codes, arg_account_ids,
                   bank_codes, consent_id, all_accounts, gbVars, raised, result>>

\* the gateway answers the token call; with a token the accounts call follows
AW_TokenAnswer ==
    /\ UNCHANGED svcVars
    /\ consent_response' = NoResponse
    /\ pc = "aw_token"
    /\ \E t \in {"ok", "short", "error"} :
          /\ raised' = Uncaught(GA_TokenHandlers, ExcOfToken(t))
          /\ _tokens' = TokensAfter(bank_code, t)
          /\ IF TokenOk(t)
             THEN IssueFetch(bank_code) /\ bank_code' = bank_code
             ELSE pc' = "ga_loop" /\ bank_code' = None /\ log' = log
    /\ UNCHANGED <<settings, _linked_accounts, _consent_ids, top, ret,
                   arg_bank_codes, arg_account_ids, gaVars, consent_id,
                   gbVars, result>>

\* the gateway answers the accounts call
AW_FetchAnswer ==
    /\ UNCHANGED svcVars
    /\ consent_response' = NoResponse
    /\ pc = "aw_fetch"
    /\ \E o \in {a \in AccountsOutcomes : a.kind # SilenceEnds(TRUE)} :
          /\ raised' = Uncaught(GA_FetchHandlers, ExcOfFetch(o))
          /\ all_accounts' = all_accounts \o NormalizedAccounts(o.data, bank_code)
          /\ IF o.kind = "consent"
             THEN pc' = "ga_consent" /\ bank_code' = bank_code
             ELSE pc' = "ga_loop" /\ bank_code' = None
    /\ UNCHANGED <<envVars, top, ret, arg_bank_codes, arg_account_ids,
                   bank_codes, todo, consent_id, gbVars, log, result>>

\* the outstanding call got no answer until its timeout; the loop goes on
AW_Timeout ==
    /\ UNCHANGED svcVars
    /\ consent_response' = NoResponse
    /\ pc \in {"aw_token", "aw_fetch"}
    /\ raised' = Uncaught(IF pc = "aw_token" THEN GA_TokenHandlers ELSE GA_FetchHandlers,
                          IF pc = "aw_token" THEN ExcOfToken(SilenceEnds(FALSE))
                          ELSE ExcOfFetch([kind |-> SilenceEnds(TRUE), data |-> << >>]))
    /\ pc' = "ga_loop"
    /\ bank_code' = None
    /\ UNCHANGED <<envVars, top, ret, arg_bank_codes, arg_account_ids,
                   bank_codes, todo, consent_id, all_accounts, gbVars, log,
                   result>>

NextAwait ==
    \/ StartGetAccounts
    \/ GA_SkipBank
    \/ AW_IssueToken
    \/ AW_TokenAnswer
    \/ AW_FetchAnswer
    \/ AW_Timeout
    \/ GA_Consent
    \/ GA_Retry
    \/ GA_Return

SpecAwait == InitOnce /\ [][NextAwait]_vars

\* ------------------------------ AnalyticsService.get_summary, placeholders
MaxSummaryLinked == 2
\* demo net worth per linked account; the sum of the demo categories
\* (8000 + 5000 + 7000 + 5000); the number of demo weeks
DemoNetWorthPerAccount == 50000
DemoSpendingTotal == 25000
DemoTrendWeeks == 4

\* how asyncio.wait_for(..., timeout=10.0) ends: the call returns, the ten
\* seconds pass, the call raises
WaitStatuses == {"ok", "timeout", "error"}
\* one get_summary call: what each aggregation call would hand back, and the
\* number of linked accounts.  real/demo count the accounts get_accounts
\* returns (its fallback builds demo accounts only when it has no real one);
\* real on balances and transactions tells records of a gateway from the
\* records the aggregation made up; transaction amounts are float(amount)
SummaryCalls ==
    {c \in [op : {"summary"},
            accounts : [status : WaitStatuses, real : 0..1, demo : 0..1],
            balances : [status : WaitStatuses, real : BOOLEAN,
                        records : {bs \in BalanceInputs :
                                     /\ Len(bs) <= 1
                                     /\ \A i \in 1..Len(bs) :
                                           /\ bs[i].balance_type = "interimBooked"
                                           /\ bs[i].account_id = "a1"
                                           /\ bs[i].from_bank = "vbank"}],
            transactions : [status : WaitStatuses, real : BOOLEAN,
                            amounts : {<< >>, <<-5>>, <<7>>}],
            linked : 0..MaxSummaryLinked] :
        /\ ~(c.accounts.real > 0 /\ c.accounts.demo > 0)
        /\ (c.balances.records = << >> => ~c.balances.real)
        /\ (c.transactions.amounts = << >> => ~c.transactions.real)}

RECURSIVE Spending(_)
\* total_spending: abs(amount) of the expenses
Spending(amounts) ==
    IF amounts = << >> THEN 0
    ELSE (IF Head(amounts) < 0 THEN -Head(amounts) ELSE 0) + Spending(Tail(amounts))

\* no summary returned yet
NoResult ==
    [done |-> FALSE, raised |-> FALSE, net_worth |-> 0, total_accounts |-> 0,
     total_spending |-> 0, weekly_trend |-> 0,
     demo_net_worth |-> FALSE, demo_spending |-> FALSE, demo_trend |-> FALSE]

\* get_summary; weekly_trend is the number of weeks in the trend, the demo_
\* fields tell which of the three demo branches ran
GetSummary(c) ==
    LET both_ok == c.accounts.status = "ok" /\ c.balances.status = "ok"
        \* except asyncio.TimeoutError: accounts = [], balances = []
        accounts == IF both_ok THEN c.accounts.real + c.accounts.demo ELSE 0
        balances == IF both_ok THEN c.balances.records ELSE << >>
        \* only asyncio.TimeoutError is caught; balances are awaited only
        \* after accounts returned
        raised_early ==
            \/ c.accounts.status = "error"
            \/ c.accounts.status = "ok" /\ c.balances.status = "error"
        net_worth == SumAmounts(BalancesByAccount(balances), AccountIdsOf(AccountKeys))
        linked_accounts == c.linked
        has_real_data == net_worth > 0 \/ accounts > 0
        demo_net_worth == ~has_real_data /\ linked_accounts > 0
        transactions == IF c.transactions.status = "ok" THEN c.transactions.amounts
                        ELSE << >>
        total_spending == Spending(transactions)
        has_real_transactions == total_spending > 0 \/ Len(transactions) > 0
        demo_spending ==
            ~has_real_transactions /\ linked_accounts > 0 /\ ~has_real_data
        \* _calculate_weekly_trend: one week per week with an expense
        weekly_trend == IF total_spending > 0 THEN 1 ELSE 0
        demo_trend == weekly_trend = 0 /\ linked_accounts > 0 /\ ~has_real_data
        shown_accounts == IF demo_net_worth THEN linked_accounts ELSE accounts
    IN  IF raised_early \/ c.transactions.status = "error"
        THEN [NoResult EXCEPT !.done = TRUE, !.raised = TRUE]
        ELSE [done |-> TRUE, raised |-> FALSE,
              net_worth |-> IF demo_net_worth
                            THEN linked_accounts * DemoNetWorthPerAccount
                            ELSE net_worth,
              total_accounts |-> IF shown_accounts > 0 THEN shown_accounts
                                 ELSE linked_accounts,
              total_spending |-> IF demo_spending THEN DemoSpendingTotal
                                 ELSE total_spending,
              weekly_trend |-> IF demo_trend THEN DemoTrendWeeks ELSE weekly_trend,
              demo_net_worth |-> demo_net_worth,
              demo_spending |-> demo_spending,
              demo_trend |-> demo_trend]

Summary ==
    /\ call.op = "summary"
    /\ ~value.done
    /\ value' = GetSummary(call)
    /\ UNCHANGED <<now, _token_cache, call, opVars>>

InitSummary ==
    /\ InitOps({}, {<< >>})
    /\ now = 0
    /\ _token_cache = [b \in Banks |-> NoEntry]
    /\ call \in SummaryCalls
    /\ value = NoResult

NextSummary == Summary
SpecSummary == InitSummary /\ [][NextSummary]_vars

\* ------------------------- TokenService.get_bank_token, overlapping callers
\* requests served on the one event loop; each calls get_bank_token once
Callers == {"r1", "r2"}
\* no call made yet
NoTasks ==
    [op |-> "tasks", at |-> [c \in Callers |-> "idle"],
     bank |-> [c \in Callers |-> None]]

\* get_bank_token up to "await client.get_bank_token()": the cache serves the
\* caller, or the caller's gateway call is issued and the caller is suspended
GBT_Start(c) ==
    /\ call.op = "tasks"
    /\ call.at[c] = "idle"
    /\ \E b \in TokenBanks, force_refresh \in BOOLEAN :
          LET cached == CacheLookup(force_refresh, _token_cache, b, now)
          IN  /\ _token_cache' = cached[2]
              /\ IF cached[1] # NoEntry
                 THEN /\ value' = cached[1]
                      /\ call' = [call EXCEPT !.at[c] = "returned", !.bank[c] = b]
                 ELSE /\ value' = value
                      /\ call' = [call EXCEPT !.at[c] = "awaiting", !.bank[c] = b]
    /\ UNCHANGED <<now, opVars>>

\* the gateway answers the suspended caller: set and get, or the error
\* propagates with the cache untouched
GBT_Answer(c) ==
    /\ call.op = "tasks"
    /\ call.at[c] = "awaiting"
    /\ \E answer \in TokenData \cup TokenFailure :
          IF answer \in TokenFailure
          THEN /\ call' = [call EXCEPT !.at[c] = "raised"]
               /\ UNCHANGED <<_token_cache, value>>
          ELSE LET stored == TokenCacheSet(_token_cache, call.bank[c], answer, now)
               IN  /\ call' = [call EXCEPT !.at[c] = "returned"]
                   /\ value' = TokenCacheGet(stored, call.bank[c], now)[1]
                   /\ _token_cache' = TokenCacheGet(stored, call.bank[c], now)[2]
    /\ UNCHANGED <<now, opVars>>

InitTasks ==
    /\ InitOps({}, {<< >>})
    /\ now = 0
    /\ _token_cache = [b \in Banks |-> NoEntry]
    /\ call = NoTasks
    /\ value = NoEntry

NextTasks ==
    \/ Tick
    \/ \E c \in Callers : GBT_Start(c)
    \/ \E c \in Callers : GBT_Answer(c)
SpecTasks == InitTasks /\ [][NextTasks]_vars

\* ------------------------- get_accounts, the accounts of parsed responses
MaxUpstream == 3
UpstreamIds == {"a1", "a2"}
\* accounts_list of a response that was fetched and unwrapped
UpstreamLists == UNION {[1..n -> UpstreamIds] : n \in 0..MaxUpstream}
\* get_accounts over vbank and abank before any response
NoResponses ==
    [op |-> "get_accounts", left |-> <<"vbank", "abank">>,
     upstream |-> [b \in TwoBanks |-> << >>]]

\* the next bank of the loop answers with a list, whose records are
\* normalized and appended to all_accounts (held in value)
GA_Parsed ==
    /\ call.op = "get_accounts"
    /\ call.left # << >>
    /\ \E accounts_list \in UpstreamLists :
          /\ value' = value \o NormalizedAccounts(accounts_list, Head(call.left))
          /\ call' = [call EXCEPT !.left = Tail(call.left),
                                  !.upstream[Head(call.left)] = accounts_list]
    /\ UNCHANGED <<now, _token_cache, opVars>>

InitParsed ==
    /\ InitOps({}, {<< >>})
    /\ now = 0
    /\ _token_cache = [b \in Banks |-> NoEntry]
    /\ call = NoResponses
    /\ value = << >>

NextParsed == GA_Parsed
SpecParsed == InitParsed /\ [][NextParsed]_vars

\* ------------------------------------------------- balance normalization
\* JSON numbers are written "num:<digits>"; str() of a number is its digits,
\* str() of a string is the string
PyStr(v) ==
    CASE v = "num:25" -> "25"
      [] v = "num:10.5" -> "10.5"
      [] OTHER -> v

\* the "amount" field of a raw balance: absent, a string or a number, or a
\* mapping with an inner amount and an inner currency
AmountValues ==
    [type : {"absent"}, amount : {NoKey}, currency : {NoKey}]
      \cup [type : {"scalar"}, amount : {"10.00", "num:25"}, currency : {NoKey}]
      \cup [type : {"dict"}, amount : {NoKey, "10.00", "num:10.5"},
            currency : {NoKey, "", "EUR"}]
\* raw balance payloads; accountId is an id the payload itself may carry
BalancePayloads ==
    [amount : AmountValues, currency : {NoKey, "USD"},
     balanceType : {NoKey, "closingAvailable"}, accountId : {NoKey, "zz"}]

\* variant: the currency is always taken from the sibling field
NormalizeBalanceSibling(balance_data, account_id) ==
    [account_id |-> account_id,
     amount |-> IF balance_data.amount.type = "absent" THEN "0"
                ELSE PyStr(GetOr(balance_data.amount.amount, "0")),
     currency |-> GetOr(balance_data.currency, "RUB"),
     balance_type |-> Or(GetOrNone(balance_data.balanceType), "interimBooked")]

\* AggregationService._normalize_balance on the whole payload (the payloads
\* here have no snake_case balance_type key, so its default is taken)
NormalizeBalanceData(balance_data, account_id) ==
    LET amount_value == balance_data.amount
    IN  [account_id |-> account_id,
         amount |-> IF amount_value.type = "dict"
                    THEN PyStr(GetOr(amount_value.amount, "0"))
                    ELSE IF amount_value.type = "absent" THEN PyStr("0")
                    ELSE PyStr(amount_value.amount),
         currency |-> IF amount_value.type = "dict"
                      THEN Or(GetOrNone(amount_value.currency),
                              GetOr(balance_data.currency, "RUB"))
                      ELSE GetOr(balance_data.currency, "RUB"),
         balance_type |-> Or(GetOrNone(balance_data.balanceType), "interimBooked")]

\* nothing normalized yet
NoBalance == [account_id |-> None, amount |-> None, currency |-> None,
              balance_type |-> None]

NormalizeBalance ==
    /\ call.op = "_normalize_balance"
    /\ value = NoBalance
    /\ value' = NormalizeBalanceData(call.balance_data, call.account_id)
    /\ UNCHANGED <<now, _token_cache, call, opVars>>

InitBalance ==
    /\ InitOps({}, {<< >>})
    /\ now = 0
    /\ _token_cache = [b \in Banks |-> NoEntry]
    /\ call \in [op : {"_normalize_balance"}, balance_data : BalancePayloads,
                 account_id : {"a1", "a2"}]
    /\ value = NoBalance

NextBalance == NormalizeBalance
SpecBalance == InitBalance /\ [][NextBalance]_vars

\* --------------------- get_balances with account_ids, selection of the ids
\* account ids a caller may ask for
RequestedIds == {"n1", "a1", "a2"}
\* account_ids arguments: a non-empty list of ids
IdArgs == {Given(S) : S \in (SUBSET RequestedIds) \ {{}}}
\* bank_codes arguments
IdBankArgs == {Omitted, Given({"vbank"}), Given({"sbank"})}
\* up to two linked accounts with different (bank, account_number)
IdLinked ==
    LET one == {LinkedAccount(b, c[1], c[2]) : b \in LinkBanks, c \in LinkChoices}
    IN  {<< >>} \cup {<<x>> : x \in one}
          \cup {<<p[1], p[2]>> : p \in {q \in one \X one : q[1].id # q[2].id}}

\* nothing selected yet
NoIds == [done |-> FALSE, all_accounts |-> << >>, account_ids |-> {},
          accounts_by_bank |-> << >>, result |-> << >>]

\* get_balances(client, account_ids, bank_codes) in the run where no gateway
\* delivers a balance: get_accounts hands over the accounts vbank delivered
\* (call.real, only when vbank is selected and configured) or its fallback,
\* then the ids are filtered and grouped and the balances fallback is applied
GB_Select ==
    /\ call.op = "get_balances"
    /\ ~value.done
    /\ LET bcs == SelectedBanks(call.bank_codes)
           real == IF "vbank" \in bcs /\ _has_bank_credentials("vbank")
                   THEN NormalizedAccounts(call.real, "vbank") ELSE << >>
           accs == AccountsFallback(real, get_linked_accounts, bcs)
           ids == QueryIds(call.account_ids, accs, get_linked_accounts)
       IN  value' = [done |-> TRUE, all_accounts |-> accs, account_ids |-> ids,
                     accounts_by_bank |-> GroupByBank(accs, get_linked_accounts, ids),
                     result |-> BalancesFallback(<< >>, accs, get_linked_accounts, ids)]
    /\ UNCHANGED <<now, _token_cache, call, opVars>>

InitSelect ==
    /\ InitOps({"vbank"}, IdLinked)
    /\ now = 0
    /\ _token_cache = [b \in Banks |-> NoEntry]
    /\ call \in [op : {"get_balances"}, account_ids : IdArgs,
                 bank_codes : IdBankArgs, real : {<< >>, <<"a1">>}]
    /\ value = NoIds

NextSelect == GB_Select
SpecSelect == InitSelect /\ [][NextSelect]_vars

\* ------------------------------------- bank clients, opened and closed
\* One pass of an operation's loop over the banks, with the clients it
\* opens: get_bank_token, request_accounts_consent and the operation itself
\* each create a client by get_bank_client and close it in a finally block.
\* value is the set of clients open; call.path lists how the awaited calls
\* ended; call.left counts the fetches the pass still has to make (one for
\* get_accounts, one per account for get_balances).
MaxFetches == 2
ClientOps == {"get_accounts", "get_balances"}
\* how an awaited gateway call ends: answered, answered with something the
\* parsing code raises on, consent-required, cut by a timeout, failed
CallEndings == {"ok", "unparsable", "consent", "timeout", "error"}

\* variant: the client is closed only when the try block ended normally
ClosedOnSuccess(open, owner, ending) ==
    IF ending = "ok" THEN open \ {owner} ELSE open

\* "finally: await client.close()": closed however the try block ended
ClosedInFinally(open, owner, ending) == open \ {owner}

Goto(at, ending) == [call EXCEPT !.at = at, !.path = Append(@, ending)]

\* the fetch of this round is over: next account, or the finally block
AfterFetch(ending) ==
    IF call.left > 1
    THEN [call EXCEPT !.at = "fetch", !.left = @ - 1, !.path = Append(@, ending)]
    ELSE [call EXCEPT !.at = "finally", !.left = 0, !.path = Append(@, ending)]

\* TokenService.get_bank_token: served from the cache, or a client is created
CL_TokenOpen ==
    /\ call.op = "clients"
    /\ call.at = "start"
    /\ \/ call' = Goto("have_token", "hit") /\ value' = value
       \/ call' = Goto("token_await", "miss") /\ value' = value \cup {"token"}
    /\ UNCHANGED <<now, _token_cache, opVars>>

\* client.get_bank_token() ends; the token client is closed; a failure is
\* caught around the pass and the bank is skipped
CL_TokenEnd ==
    /\ call.op = "clients"
    /\ call.at = "token_await"
    /\ \E ending \in {"ok", "timeout", "error"} :
          /\ value' = ClosedInFinally(value, "token", ending)
          /\ call' = Goto(IF ending = "ok" THEN "have_token" ELSE "returned", ending)
    /\ UNCHANGED <<now, _token_cache, opVars>>

\* client = get_bank_client(bank_code); get_balances asks for a consent
\* first when none is stored
CL_BankOpen ==
    /\ call.op = "clients"
    /\ call.at = "have_token"
    /\ value' = value \cup {"bank"}
    /\ \/ call' = Goto("fetch", "opened")
       \/ /\ call.operation = "get_balances"
          /\ call' = Goto("consent", "no_consent_id")
    /\ UNCHANGED <<now, _token_cache, opVars>>

\* the awaited accounts/balances call ends
CL_Fetch ==
    /\ call.op = "clients"
    /\ call.at = "fetch"
    /\ \E ending \in CallEndings :
          call' = IF ending = "consent" THEN Goto("consent", ending)
                  ELSE IF ending = "ok" \/ call.operation = "get_balances"
                  THEN AfterFetch(ending)
                  ELSE [Goto("finally", ending) EXCEPT !.left = 0]
    /\ value' = value
    /\ UNCHANGED <<now, _token_cache, opVars>>

\* ConsentService.request_accounts_consent creates its client
CL_ConsentOpen ==
    /\ call.op = "clients"
    /\ call.at = "consent"
    /\ value' = value \cup {"consent"}
    /\ call' = [call EXCEPT !.at = "consent_await"]
    /\ UNCHANGED <<now, _token_cache, opVars>>

\* client.request_accounts_consent() ends; the consent client is closed; the
\* consent asked for ahead of the loop is followed by the first fetch, the
\* handler's consent by the retry when it gave an id
CL_ConsentEnd ==
    /\ call.op = "clients"
    /\ call.at = "consent_await"
    /\ \E ending \in {"ok", "timeout", "error"} :
          /\ value' = ClosedInFinally(value, "consent", ending)
          /\ call' = IF call.path[Len(call.path)] = "no_consent_id"
                     THEN Goto("fetch", ending)
                     ELSE IF ending = "ok" THEN Goto("retry", ending)
                     ELSE AfterFetch(ending)
    /\ UNCHANGED <<now, _token_cache, opVars>>

\* the fetch with the new consent id ends
CL_Retry ==
    /\ call.op = "clients"
    /\ call.at = "retry"
    /\ \E ending \in CallEndings : call' = AfterFetch(ending)
    /\ value' = value
    /\ UNCHANGED <<now, _token_cache, opVars>>

\* the pass's own "finally: await client.close()"
CL_Finally ==
    /\ call.op = "clients"
    /\ call.at = "finally"
    /\ value' = ClosedInFinally(value, "bank", call.path[Len(call.path)])
    /\ call' = [call EXCEPT !.at = "returned"]
    /\ UNCHANGED <<now, _token_cache, opVars>>

InitClients ==
    /\ InitOps({}, {<< >>})
    /\ now = 0
    /\ _token_cache = [b \in Banks |-> NoEntry]
    /\ \E operation \in ClientOps :
          call = [op |-> "clients", operation |-> operation, at |-> "start",
                  left |-> IF operation = "get_accounts" THEN 1 ELSE MaxFetches,
                  path |-> << >>]
    /\ value = {}

NextClients ==
    \/ CL_TokenOpen
    \/ CL_TokenEnd
    \/ CL_BankOpen
    \/ CL_Fetch
    \/ CL_ConsentOpen
    \/ CL_ConsentEnd
    \/ CL_Retry
    \/ CL_Finally
SpecClients == InitClients /\ [][NextClients]_vars

\* ------------------------------------------- ConsentService on its own
\* the operation variables the consent service leaves alone
consentFrame == <<settings, _linked_accounts, top, pc, ret, arg_bank_codes,
                  arg_account_ids, bank_codes, todo, bank_code, consent_id,
                  consent_response, all_accounts, account_ids, accounts_by_bank,
                  acc_ids, all_records, log, raised, result>>

\* ConsentService.request_accounts_consent(bank_code, client_id, permissions)
RequestConsent ==
    /\ \E b \in TokenBanks : \E t \in TokenOutcomes(b, FALSE) :
       \E c \in ConsentOutcomes(b, FALSE) :
          /\ call' = [op |-> "request_accounts_consent", bank |-> b,
                      token_ok |-> TokenOk(t), answer |-> c]
          /\ _tokens' = TokensAfter(b, t)
          /\ _consent_ids' = ConsentStoreAfter(b, t, c)
    /\ value' = NoEntry
    /\ UNCHANGED <<now, _token_cache, consentFrame>>

\* ConsentService.clear_consent_id(client_id, bank_code)
ClearConsent ==
    /\ \E b \in TokenBanks :
          /\ call' = [op |-> "clear_consent_id", bank |-> b]
          /\ _consent_ids' = [_consent_ids EXCEPT ![b] = None]
    /\ value' = NoEntry
    /\ UNCHANGED <<now, _token_cache, _tokens, consentFrame>>

InitConsent == InitWith({}, {<< >>})
NextConsent == Tick \/ RequestConsent \/ ClearConsent
SpecConsent == InitConsent /\ [][NextConsent]_vars

\* ------------------------------------------- AccountLinkingService on its own
MaxLinkingEntries == 3
\* bank and account_number are free strings for the service: the id
\* f"{bank}-{account_number}" of (vbank, x-n1) and of (vbank-x, n1) is the same
LinkingBanks == {"vbank", "vbank-x"}
LinkingNumbers == {"n1", "x-n1"}
LinkingAccountIds == {None, "a2"}
UnlinkIds == {"vbank-n1", "vbank-x-n1", "vbank-x-x-n1", "n1"}

\* unlink_account(client_id, account_id): keep the entries with another id
unlink_account(id) ==
    SelectSeq(_linked_accounts, LAMBDA acc : acc.id # id)

linkingFrame == <<settings, _consent_ids, _tokens, top, pc, ret, arg_bank_codes,
                  arg_account_ids, bank_codes, todo, bank_code, consent_id,
                  consent_response, all_accounts, account_ids, accounts_by_bank,
                  acc_ids, all_records, log, raised, result>>

LK_Link ==
    /\ \E b \in LinkingBanks, number \in LinkingNumbers, aid \in LinkingAccountIds :
          /\ Len(link_account(b, number, aid)) <= MaxLinkingEntries
          /\ _linked_accounts' = link_account(b, number, aid)
          /\ call' = [op |-> "link_account", id |-> LinkedAccount(b, number, aid).id]
          /\ value' = LinkedAccount(b, number, aid)
    /\ UNCHANGED <<now, _token_cache, linkingFrame>>

LK_Unlink ==
    /\ \E id \in UnlinkIds :
          /\ _linked_accounts' = unlink_account(id)
          /\ call' = [op |-> "unlink_account", id |-> id]
          /\ value' = (Len(unlink_account(id)) < Len(_linked_accounts))
    /\ UNCHANGED <<now, _token_cache, linkingFrame>>

InitLinking == InitWith({}, {<< >>})
NextLinking == LK_Link \/ LK_Unlink
SpecLinking == InitLinking /\ [][NextLinking]_vars

\* ------------------------------------------------- RateLimitMiddleware
\* admitted requests per IP and window; the application passes 60, the
\* limiter takes any number
requests_per_minute == 3
\* seconds a request stays counted
RateWindow == 60
\* the clock advances in steps of RateTickSeconds up to MaxRateClock
RateTickSeconds == 30
MaxRateClock == 120
ClientIps == {"ip1", "ip2"}
NeverSeen == [time |-> 0 - 1, status |-> 0]

\* the ASGI scope of a request: a server following the ASGI specification
\* puts no "time" key in it; stamped is a deployment whose server does
RequestScope(ip, stamped) ==
    IF stamped THEN [type |-> "http", client |-> ip, time |-> now]
    ELSE [type |-> "http", client |-> ip]

\* request.scope.get(key, default)
ScopeGet(scope, key, default) ==
    IF key \in DOMAIN scope THEN scope[key] ELSE default

\* the entries of the IP that are less than one minute old
RecentRequests(times, current_time) ==
    SelectSeq(times, LAMBDA req_time : current_time - req_time < RateWindow)

\* RateLimitMiddleware.dispatch: value is the middleware object, with the
\* time and status of each IP's last request (last) and the clock times of
\* its requests admitted in the last minute (admitted) kept beside
\* _request_counts
RL_Dispatch ==
    /\ \E client_ip \in ClientIps :
         LET scope == RequestScope(client_ip, value.stamped)
             current_time == ScopeGet(scope, "time", 0)
             known == client_ip \in DOMAIN value._request_counts
             cleaned == IF known
                        THEN RecentRequests(value._request_counts[client_ip],
                                            current_time)
                        ELSE << >>
             limited == known /\ Len(cleaned) >= requests_per_minute
             counts == IF limited THEN cleaned ELSE Append(cleaned, current_time)
             status == IF limited THEN 429 ELSE 200
         IN  /\ call' = [op |-> "dispatch", client_ip |-> client_ip,
                         status |-> status, before |-> value.last[client_ip]]
             /\ value' = [value EXCEPT
                   !._request_counts =
                       [ip \in DOMAIN value._request_counts \cup {client_ip} |->
                           IF ip = client_ip THEN counts
                           ELSE value._request_counts[ip]],
                   !.last[client_ip] = [time |-> now, status |-> status],
                   !.admitted[client_ip] =
                       IF limited THEN RecentRequests(@, now)
                       ELSE Append(RecentRequests(@, now), now)]
    /\ UNCHANGED <<now, _token_cache, opVars>>

\* time passes between requests
RL_Tick ==
    /\ now + RateTickSeconds <= MaxRateClock
    /\ now' = now + RateTickSeconds
    /\ UNCHANGED <<_token_cache, call, value, opVars>>

InitRate ==
    /\ InitOps({}, {<< >>})
    /\ now = 0
    /\ _token_cache = [b \in Banks |-> NoEntry]
    /\ call = NoCall
    /\ \E stamped \in BOOLEAN :
          value = [_request_counts |-> << >>, stamped |-> stamped,
                   last |-> [ip \in ClientIps |-> NeverSeen],
                   admitted |-> [ip \in ClientIps |-> << >>]]
NextRate == RL_Tick \/ RL_Dispatch
SpecRate == InitRate /\ [][NextRate]_vars

\* ------------------------------------------------------------ properties
\* the public operation op has returned a value
Returned(op) == pc = "done" /\ top = op /\ raised = None

\* both the client id and the secret of bank b are set
Configured(b) == settings[b].client_id /\ settings[b].client_secret

\* number of gateway calls of a kind issued to bank b by the running operation
Calls(kind, b) ==
    Cardinality({i \in 1..Len(log) : log[i].kind = kind /\ log[i].bank = b})

Last(s) == s[Len(s)]
FetchKinds == {"accounts", "balances", "transactions"}

\* the normalized records one logged fetch delivered
RecordsOf(e) ==
    CASE e.kind = "accounts" -> NormalizedAccounts(e.data, e.bank)
      [] e.kind = "balances" -> NormalizedBalances(e.data, e.account)
      [] e.kind = "transactions" -> NormalizedTransactions(e.data, e.account)
      [] OTHER -> << >>

\* everything the gateways delivered to fetches of one kind, in call order
RECURSIVE Delivered(_, _)
Delivered(kind, l) ==
    IF l = << >> THEN << >>
    ELSE (IF Head(l).kind = kind THEN RecordsOf(Head(l)) ELSE << >>)
            \o Delivered(kind, Tail(l))

IsReal(r) == r.src = "api"
IsPlaceholder(r) == r.src = "demo"

\* the client has linked accounts, all of them in banks without credentials
OnlyUnconfiguredLinks ==
    /\ Len(_linked_accounts) > 0
    /\ \A i \in 1..Len(_linked_accounts) : ~Configured(_linked_accounts[i].bank)

\* C1: when all linked accounts of the client are in banks without
\* credentials, get_balances returns one placeholder Balance of "50000.00"
\* per linked account, never an empty list.
C1_PlaceholderBalances ==
    (Returned("get_balances") /\ OnlyUnconfiguredLinks) =>
        /\ Len(result) = Len(_linked_accounts)
        /\ \A i \in 1..Len(result) :
              /\ IsPlaceholder(result[i])
              /\ result[i].amount = "50000.00"
              /\ result[i].account_id = LinkedKey(_linked_accounts[i])

\* C2: when the live APIs returned at least one real account, the list
\* get_balances returns holds no placeholder Balance, even if it is empty.
C2_NoPlaceholderBesideRealAccounts ==
    (Returned("get_balances") /\ Delivered("accounts", log) # << >>) =>
        \A i \in 1..Len(result) : ~IsPlaceholder(result[i])

\* real accounts, linked accounts, no balance record: the result is empty
C2_Witness ==
    /\ Returned("get_balances")
    /\ Delivered("accounts", log) # << >>
    /\ Len(_linked_accounts) > 0
    /\ Delivered("balances", log) = << >>
    /\ result = << >>

\* the linked accounts of the banks get_accounts was asked for
LinkedInSelectedBanks ==
    SelectSeq(_linked_accounts, LAMBDA acc : acc.bank \in SelectedBanks(arg_bank_codes))

\* C3: get_accounts returns synthesized accounts exactly when the merged real
\* list is empty and the client has linked accounts in the selected banks:
\* one Account per such linked account, account_id = account_number, the
\* linked bank, "RUB", "current"; otherwise it returns the real list.
C3_SynthesizedAccounts ==
    Returned("get_accounts") =>
        result = IF Delivered("accounts", log) # << >>
                 THEN Delivered("accounts", log)
                 ELSE [i \in 1..Len(LinkedInSelectedBanks) |->
                         [account_id |-> LinkedInSelectedBanks[i].account_number,
                          bank |-> LinkedInSelectedBanks[i].bank,
                          currency |-> "RUB", account_type |-> "current",
                          src |-> "demo"]]

\* two linked accounts, one of them in the selected bank: one synthesized account
C3_Witness ==
    /\ Returned("get_accounts")
    /\ Len(_linked_accounts) = 2
    /\ Len(result) = 1
    /\ IsPlaceholder(result[1])
    /\ result[1].bank = "vbank"

\* C4: for a client with one linked account and no credentials for any bank,
\* the transaction aggregation returns the 5 placeholder transactions of
\* that linked account, not an empty list.
C4_PlaceholderTransactions ==
    (/\ Returned("aggregate_transactions")
     /\ Len(_linked_accounts) = 1
     /\ \A b \in Banks : ~Configured(b)) =>
        /\ Len(result) = 5
        /\ \A i \in 1..Len(result) :
              /\ IsPlaceholder(result[i])
              /\ result[i].account_id = _linked_accounts[1].account_number

\* C5: no per-bank failure raises out of get_accounts, get_balances or
\* get_transactions; the operation returns a list whose real records are
\* exactly what the gateways delivered, a failing call counting as nothing.
C5_FailuresContained ==
    /\ raised = None
    /\ Returned("get_accounts") =>
          SelectSeq(result, IsReal) = Delivered("accounts", log)
    /\ Returned("get_balances") =>
          SelectSeq(result, IsReal) = Delivered("balances", log)
    /\ Returned("get_transactions") => result = Delivered("transactions", log)

\* vbank was asked for a token and never delivered one, abank's balance came back
C5_Witness ==
    /\ Returned("get_balances")
    /\ Calls("token", "vbank") > 0
    /\ \A k \in FetchKinds : Calls(k, "vbank") = 0
    /\ Calls("balances", "abank") > 0
    /\ \E i \in 1..Len(result) : IsReal(result[i])

\* C6: no gateway call of any kind (token, consent, fetch) is issued for a
\* bank whose client id or secret is empty.
C6_NoCallWithoutCredentials ==
    \A i \in 1..Len(log) : Configured(log[i].bank)

\* get_balances went through vbank, which has a client id but no secret
C6_Witness ==
    /\ Returned("get_balances")
    /\ settings["vbank"].client_id
    /\ ~settings["vbank"].client_secret
    /\ "vbank" \in bank_codes
    /\ \E i \in 1..Len(_linked_accounts) : _linked_accounts[i].bank = "vbank"

\* C7: in one get_accounts call, each bank gets at most one consent request
\* and at most two accounts fetches, whatever the gateway answers; a bank
\* that never delivers leaves no real account.
C7_OneConsentOneRetry ==
    top = "get_accounts" =>
        \A b \in Banks : Calls("consent", b) <= 1 /\ Calls("accounts", b) <= 2

\* fetch, consent request, retry, and the call returned without data of vbank
C7_Witness ==
    /\ Returned("get_accounts")
    /\ Calls("consent", "vbank") = 1
    /\ Calls("accounts", "vbank") = 2
    /\ Delivered("accounts", log) = << >>
    /\ \A i \in 1..Len(result) : ~IsReal(result[i])

\* C8: in one get_balances or get_transactions call, each bank gets at most
\* one consent request.
C8_OneConsentPerCall ==
    top \in {"get_balances", "get_transactions"} =>
        \A b \in Banks : Calls("consent", b) <= 1

\* C9: while the Consent Store holds an id for the bank, no consent request is
\* issued for it and every fetch carries the stored id.
C9_StoredConsentReused ==
    \A i \in 1..Len(log) :
        log[i].stored # None =>
            /\ log[i].kind # "consent"
            /\ log[i].kind \in FetchKinds => log[i].consent_id = log[i].stored

\* C10: a consent response that is not (approved, with a consent id, with
\* auto_approved = true) leaves the Consent Store entry as it was.
C10_StoreOnlyAutoApproved ==
    (/\ log # << >>
     /\ Last(log).kind = "consent"
     /\ consent_response # NoResponse
     /\ ~(/\ consent_response.status = "approved"
          /\ consent_response.consent_id # None
          /\ consent_response.auto_approved)) =>
        _consent_ids[Last(log).bank] = Last(log).stored

C12_GetNeverReturnsExpired ==
    [][/\ (call'.op = "get" /\ now' = now) =>
            IF call'.had # NoEntry /\ now' < call'.had.expires_at
            THEN /\ value' = call'.had
                 /\ _token_cache'[call'.bank] = call'.had
            ELSE /\ value' = NoEntry
                 /\ _token_cache'[call'.bank] = NoEntry
       /\ now' # now => _token_cache' = _token_cache
       /\ _token_cache' # _token_cache =>
            call'.op \in {"get", "get_bank_token", "clear_cache"}]_vars

\* C12 witness: a read at the instant of expiry returned nothing and removed
\* the entry.
C12_Witness ==
    /\ call.op = "get"
    /\ call.had # NoEntry
    /\ now = call.had.expires_at
    /\ value = NoEntry
    /\ _token_cache[call.bank] = NoEntry

\* C13: a refresh that obtained a token with expires_in <= 60 returns token
\* data carrying that access_token to its caller.
C13_ShortTokenUsableOnce ==
    (/\ call.op = "get_bank_token"
     /\ call.token_data # NoEntry
     /\ "expires_in" \in DOMAIN call.token_data
     /\ call.token_data.expires_in <= ExpiryBuffer) =>
        /\ value # NoEntry
        /\ value.access_token = call.token_data.access_token

\* precedence of a balance type: interimBooked, then openingBooked, then others
Precedence(bt) ==
    CASE bt = "interimBooked" -> 2
      [] bt = "openingBooked" -> 1
      [] OTHER -> 0

\* the records of the summed list that belong to account id and have an amount
UsableRecords(id) ==
    {call.balances[i] : i \in {j \in 1..Len(call.balances) :
        /\ call.balances[j].account_id = id
        /\ ParsesAmount(call.balances[j].amount)}}

\* C14: for every account (Balance.account_id) and every order of its balance
\* records, the amount counted is the amount of one of its records of the
\* highest-precedence type present (interimBooked, then openingBooked, then
\* any other); an account without a usable record counts nothing.
C14_BalanceSelection ==
    (call.op = "get_summary" /\ value.done) =>
        \A id \in AccountIdsOf(AccountKeys) :
            LET recs == UsableRecords(id)
                sel == value.balances_by_account[id]
            IN  IF recs = {} THEN sel = NoSelection
                ELSE \E r \in recs :
                        /\ \A q \in recs : Precedence(q.balance_type) <= Precedence(r.balance_type)
                        /\ sel.balance_type = r.balance_type
                        /\ sel.amount = ParseAmount(r.amount)

\* C14 witness: an openingBooked record came before an interimBooked record
\* of the same account with another amount, and the interimBooked amount is
\* the one counted.
C14_Witness ==
    /\ call.op = "get_summary"
    /\ value.done
    /\ Len(call.balances) = 2
    /\ call.balances[1].account_id = "a1"
    /\ call.balances[2].account_id = "a1"
    /\ call.balances[1].balance_type = "openingBooked"
    /\ call.balances[1].amount = "10.00"
    /\ call.balances[2].balance_type = "interimBooked"
    /\ call.balances[2].amount = "25.00"
    /\ value.net_worth = 25

\* C15: the total counts one balance for every (bank, account_id) that has a
\* usable balance record.
C15_OneBalancePerBankAccount ==
    (call.op = "get_summary" /\ value.done) =>
        Cardinality({id \in AccountIdsOf(AccountKeys) :
                        value.balances_by_account[id] # NoSelection})
          = Cardinality({<<call.balances[i].from_bank, call.balances[i].account_id>> :
                            i \in {j \in 1..Len(call.balances) :
                                      ParsesAmount(call.balances[j].amount)}})

\* C16: for accounts, balances and transactions alike the unwrapped list is
\* data.<singular> when that is a list, the one-element list of it when it is
\* a single mapping, otherwise the top-level plural field when that is a
\* list, otherwise empty.
C16_SameUnwrapping ==
    (call.op \in FetchOps /\ value.done) =>
        LET singular == call.response.data.singular
        IN  value.items =
              IF call.response.data.type = "dict" /\ singular.type = "list"
              THEN singular.items
              ELSE IF call.response.data.type = "dict" /\ singular.type = "dict"
              THEN singular.items
              ELSE IF call.response.plural.type = "list"
              THEN call.response.plural.items
              ELSE << >>

\* the payload carrying the values of a camelCase payload under snake_case keys
SnakeCase(p) ==
    [accountId |-> NoKey, account_id |-> p.accountId,
     accountType |-> NoKey, account_type |-> p.accountType,
     currency |-> p.currency]

\* C17: a payload with accountId/accountType normalizes to the same Account as
\* the payload carrying the same values under account_id/account_type, with
\* account_type "Personal" and currency "RUB" when they are absent.
C17_KeyStyleIndependent ==
    (/\ call.op = "_normalize_account"
     /\ value # NoAccount
     /\ call.account_data.account_id = NoKey
     /\ call.account_data.account_type = NoKey) =>
        /\ value = NormalizeAccountData(SnakeCase(call.account_data), call.bank_code)
        /\ call.account_data.accountType = NoKey => value.account_type = "Personal"
        /\ call.account_data.currency = NoKey => value.currency = "RUB"

\* C18: every gateway call ends, by an answer or by a timeout, so an operation
\* that was started (get_accounts, get_balances, get_transactions, the
\* aggregate route) eventually returns, without raising.
C18_OperationsReturn ==
    (pc # "idle") ~> (pc = "done" /\ raised = None)

\* C18 witness: get_transactions returned although vbank delivered nothing to
\* any of its calls: the token was obtained, the transactions call, which is
\* not under wait_for, brought no data, and the result is empty.
C18_Witness ==
    /\ Returned("get_transactions")
    /\ Calls("token", "vbank") > 0
    /\ Calls("transactions", "vbank") > 0
    /\ \A i \in 1..Len(log) : log[i].data = << >>
    /\ result = << >>

\* the pipeline of every other selected bank with credentials has issued a call
OthersStarted ==
    \A b \in bank_codes \ {bank_code} :
        Configured(b) => \E i \in 1..Len(log) : log[i].bank = b

\* C19: the banks' pipelines run concurrently: when a bank's outstanding call
\* ends by its timeout, the pipelines of the other selected banks have been
\* started already, they did not wait for the silent bank.
C19_SilentBankPostponesNone ==
    [][AW_Timeout => OthersStarted]_vars

\* the banks in which the client has an active linked account
ActiveLinkBanks ==
    {b \in Banks : \E i \in 1..Len(_linked_accounts) :
        _linked_accounts[i].bank = b /\ _linked_accounts[i].active}

\* the banks get_accounts(bank_codes) is to process
ExpectedBanks ==
    IF arg_bank_codes.given THEN arg_bank_codes.items
    ELSE IF ActiveLinkBanks # {} THEN ActiveLinkBanks
    ELSE Banks

\* C20: get_accounts selects the given banks, or without bank_codes the banks
\* of the client's active linked accounts, or every bank when there is none;
\* when it returns it has gone through all of them, and the banks it called
\* are exactly the selected ones that have credentials.
C20_BankSelection ==
    (top = "get_accounts" /\ pc # "idle") =>
        /\ bank_codes = ExpectedBanks
        /\ todo \subseteq bank_codes
        /\ Returned("get_accounts") =>
              /\ todo = {}
              /\ {log[i].bank : i \in 1..Len(log)}
                   = {b \in ExpectedBanks : Configured(b)}

\* C20 witness: bank_codes omitted, the only linked account is in abank, and
\* get_accounts returned without calling vbank although vbank has credentials.
C20_Witness ==
    /\ Returned("get_accounts")
    /\ ~arg_bank_codes.given
    /\ ActiveLinkBanks = {"abank"}
    /\ Configured("vbank")
    /\ bank_codes = {"abank"}
    /\ log = << >>

\* the account ids for which a balances or transactions call went to bank b
QueriedIds(b) ==
    {log[i].account : i \in {k \in 1..Len(log) :
        log[k].bank = b /\ log[k].kind \in {"balances", "transactions"}}}

\* C21: when get_balances or get_transactions, called without an account_ids
\* filter, has returned, the account ids it queried at a bank are the ids of
\* the accounts the live API returned for that bank together with one id per
\* linked account of that bank (its account_id if set, else its
\* account_number), and no id was grouped twice for a bank.
C21_QueriedAccounts ==
    /\ \A i \in 1..Len(accounts_by_bank) :
          Cardinality(Range(accounts_by_bank[i].ids)) = Len(accounts_by_bank[i].ids)
    /\ (Returned("get_balances") \/ Returned("get_transactions")) =>
          \A b \in Banks :
              QueriedIds(b) # {} =>
                  QueriedIds(b) =
                      {r.account_id : r \in {q \in Range(Delivered("accounts", log)) : q.bank = b}}
                      \cup {LinkedKey(_linked_accounts[j]) : j \in {k \in 1..Len(_linked_accounts) :
                                _linked_accounts[k].bank = b}}

\* the summary call was handed real accounts, real balances, real transactions
\* by the aggregation (whether or not get_summary kept them)
GotRealAccounts == call.accounts.status = "ok" /\ call.accounts.real > 0
GotRealBalances ==
    /\ call.accounts.status = "ok"
    /\ call.balances.status = "ok" /\ call.balances.real
GotRealTransactions ==
    call.transactions.status = "ok" /\ call.transactions.real
ShowsPlaceholders ==
    value.demo_net_worth \/ value.demo_spending \/ value.demo_trend

\* C22: a summary shows placeholder values (demo net worth, demo spending,
\* demo weekly trend) only when the aggregation obtained no real account, no
\* real balance and no real transaction; real accounts followed by a failed or
\* timed-out get_balances or get_transactions give no placeholder.
C22_PlaceholdersOnlyWithoutRealData ==
    (call.op = "summary" /\ value.done /\ ~value.raised /\ ShowsPlaceholders) =>
        ~GotRealAccounts /\ ~GotRealBalances /\ ~GotRealTransactions

\* the callers whose gateway token call for bank b is in flight
InFlight(b) == {c \in Callers : call.at[c] = "awaiting" /\ call.bank[c] = b}

\* C23: under concurrent callers for the same bank at most one token refresh
\* is in flight per bank at any time: two overlapping get_bank_token calls
\* that both miss the cache do not both call the gateway.
C23_OneRefreshInFlight ==
    call.op = "tasks" => \A b \in TokenBanks : Cardinality(InFlight(b)) <= 1

\* the consent request just issued for the current bank raised or timed out
\* (no response came back), and the next fetch for that bank is about to run
ConsentJustFailed ==
    /\ pc \in {"gb_fetch", "gt_fetch"}
    /\ log # << >>
    /\ Last(log).kind = "consent"
    /\ Last(log).bank = bank_code
    /\ consent_response = NoResponse

C25_OneEntryPerBank ==
    [][/\ (call'.op = "clear_cache" /\ now' = now) =>
            IF call'.bank = None
            THEN \A b \in Banks : _token_cache'[b] = NoEntry
            ELSE /\ _token_cache'[call'.bank] = NoEntry
                 /\ \A b \in Banks \ {call'.bank} : _token_cache'[b] = _token_cache[b]
       /\ (call'.op = "get_bank_token" /\ now' = now) =>
            /\ \A b \in Banks \ {call'.bank} : _token_cache'[b] = _token_cache[b]
            /\ call'.token_data # NoEntry =>
                  \/ _token_cache'[call'.bank] = NoEntry
                  \/ _token_cache'[call'.bank].access_token = call'.token_data.access_token
      ]_vars

\* clear_cache("vbank") has run and abank's token is still cached
C25_Witness ==
    /\ call.op = "clear_cache"
    /\ call.bank = "vbank"
    /\ _token_cache["vbank"] = NoEntry
    /\ _token_cache["abank"] # NoEntry

\* C26: a consent request is issued only in reaction to a consent-required
\* signal: each consent request of an operation is preceded, in the same
\* operation, by a gateway fetch for that bank (the one that was answered
\* consent-required).
C26_ConsentOnlyOnSignal ==
    \A i \in 1..Len(log) :
        log[i].kind = "consent" =>
            \E j \in 1..(i - 1) :
                log[j].kind \in FetchKinds /\ log[j].bank = log[i].bank

\* the account ids of the records of bank b, in the order of the sequence
IdsOfBank(records, b) ==
    LET of_bank == SelectSeq(records, LAMBDA r : r.bank = b)
    IN  [i \in 1..Len(of_bank) |-> of_bank[i].account_id]

\* C27: within a bank the accounts of get_accounts keep the order of the
\* gateway's list, and no record of a parsed response is dropped or
\* duplicated: the bank's part of all_accounts is the upstream list.
C27_UpstreamOrderKept ==
    call.op = "get_accounts" =>
        \A b \in TwoBanks :
            IdsOfBank(value, b) =
                (IF b \in Range(call.left) THEN << >> ELSE call.upstream[b])

\* both banks answered, vbank with a1 before a2 and abank with a2 before a1
C27_Witness ==
    /\ call.op = "get_accounts"
    /\ call.left = << >>
    /\ call.upstream["vbank"] = <<"a1", "a2">>
    /\ call.upstream["abank"] = <<"a2", "a1", "a1">>
    /\ Len(value) = 5

\* the entry TokenCache.set stores for a token response at the present time
StoredEntry(token_data) ==
    LET expires_in == IF "expires_in" \in DOMAIN token_data
                      THEN token_data.expires_in ELSE 86400
    IN  [access_token |-> token_data.access_token, expires_in |-> expires_in,
         expires_at |-> now + expires_in - 60]

\* C28: with a valid cached token and force_refresh false, get_bank_token
\* returns the cached token, calls no gateway and leaves the cache alone; with
\* force_refresh true it always calls the gateway and, when the gateway
\* answers, the bank's entry becomes the one made from the answer (which the
\* closing get removes at once if it is already expired); when the gateway
\* call fails the bank's entry is left as it was (a lookup that found an
\* expired entry has removed it).
C28_ForceRefresh ==
    [][(call'.op = "get_bank_token" /\ now' = now) =>
          LET b == call'.bank
              old == _token_cache[b]
              valid == old # NoEntry /\ now < old.expires_at
              gateway_called == call'.token_data # NoEntry \/ call'.raised # None
          IN  /\ (~call'.force_refresh /\ valid) =>
                    /\ ~gateway_called
                    /\ value' = old
                    /\ _token_cache' = _token_cache
              /\ call'.force_refresh => gateway_called
              /\ call'.token_data # NoEntry =>
                    /\ _token_cache'[b] =
                          (IF now >= StoredEntry(call'.token_data).expires_at
                           THEN NoEntry ELSE StoredEntry(call'.token_data))
                    /\ value' = _token_cache'[b]
              /\ call'.raised # None =>
                    /\ value' = NoEntry
                    /\ _token_cache'[b] =
                          (IF call'.force_refresh \/ valid THEN old ELSE NoEntry)
      ]_vars

\* a forced refresh failed at the gateway and the bank's token is still cached
C28_Witness ==
    /\ call.op = "get_bank_token"
    /\ call.force_refresh
    /\ call.raised # None
    /\ _token_cache[call.bank] # NoEntry
    /\ now < _token_cache[call.bank].expires_at

\* C29: a balances or transactions fetch made while a consent id is stored
\* for the bank is followed by no consent request and no retry, whatever the
\* gateway answers (consent-required included): the Consent Store keeps its
\* entries, the fetch is the only call issued, and when it delivered nothing
\* the account is left behind without a record.
C29_StoredConsentNoRenegotiation ==
    [][(/\ pc \in {"gb_fetch", "gt_fetch"}
        /\ raised = None
        /\ _consent_ids[bank_code] # None) =>
          /\ pc' \notin {"gb_consent", "gt_consent", "gb_retry", "gt_retry"}
          /\ _consent_ids' = _consent_ids
          /\ Len(log') = Len(log) + 1
          /\ Last(log').kind \in {"balances", "transactions"}
          /\ Last(log').consent_id = _consent_ids[bank_code]
          /\ Last(log').data = << >> => all_records' = all_records
          /\ (acc_ids' = Tail(acc_ids) \/ acc_ids' = << >>)
      ]_vars

\* a fetch sent with the stored consent id delivered nothing (as a
\* consent-required answer does) and the operation moved on from the account
C29_Witness ==
    /\ log # << >>
    /\ Last(log).kind \in {"balances", "transactions"}
    /\ Last(log).stored # None
    /\ Last(log).consent_id = Last(log).stored
    /\ Last(log).data = << >>
    /\ pc \in {"gb_fetch", "gb_loop", "gt_fetch", "gt_loop"}
    /\ all_records = << >>
    /\ raised = None

\* C30: for a raw amount that is a mapping {amount, currency} the Balance
\* amount is the inner amount written as a string, the Balance currency is
\* the inner currency when the mapping has one (a non-empty value), else the
\* sibling currency field, else "RUB"; the Balance account_id is the queried
\* id, never a value of the payload.
C30_NestedAmount ==
    (call.op = "_normalize_balance" /\ value # NoBalance) =>
        LET raw == call.balance_data
            inner == raw.amount
        IN  /\ value.account_id = call.account_id
            /\ inner.type = "dict" =>
                  /\ inner.amount = "10.00" => value.amount = "10.00"
                  /\ inner.amount = "num:10.5" => value.amount = "10.5"
                  /\ value.currency =
                        (IF inner.currency \notin {NoKey, ""} THEN inner.currency
                         ELSE IF raw.currency # NoKey THEN raw.currency
                         ELSE "RUB")

\* a nested amount with its own currency beside a sibling currency, in a
\* payload that carries an account id of its own
C30_Witness ==
    /\ call.op = "_normalize_balance"
    /\ value # NoBalance
    /\ call.balance_data.amount.type = "dict"
    /\ call.balance_data.amount.currency = "EUR"
    /\ call.balance_data.amount.amount = "num:10.5"
    /\ call.balance_data.currency = "USD"
    /\ call.balance_data.accountId = "zz"
    /\ value.currency = "EUR"

\* every record of the sequence has the same provenance
OneProvenance(records) ==
    \/ \A i \in 1..Len(records) : IsReal(records[i])
    \/ \A i \in 1..Len(records) : IsPlaceholder(records[i])

\* C31: the list get_accounts builds and returns is never a mix of
\* provenances: every Account in it came from a live bank response, or every
\* Account in it was synthesized from a linked account.
C31_AccountsOneProvenance ==
    /\ OneProvenance(all_accounts)
    /\ Returned("get_accounts") => OneProvenance(result)

\* a real account is returned to a client who has a linked account in that bank
C31_Witness ==
    /\ Returned("get_accounts")
    /\ Len(result) > 0
    /\ IsReal(result[1])
    /\ \E i \in 1..Len(_linked_accounts) :
          /\ _linked_accounts[i].bank = result[1].bank
          /\ _linked_accounts[i].bank \in bank_codes

\* C32: get_balances and get_transactions respect the bank filter: when
\* bank_codes is given, no gateway call (token, consent, accounts, balances,
\* transactions) goes to a bank outside it, even when the client has linked
\* accounts in other banks.
C32_BankFilterRespected ==
    (top \in {"get_balances", "get_transactions"} /\ arg_bank_codes.given) =>
        \A i \in 1..Len(log) : log[i].bank \in arg_bank_codes.items

\* the ids grouped for the gateway queries
GroupedIds(abb) == UNION {Range(abb[i].ids) : i \in 1..Len(abb)}

\* C33: when account_ids = S is passed to get_balances, every returned
\* record, real or placeholder, has an account_id in S, and only ids of S
\* known from the account list or from the linked accounts are queried.
C33_RequestedIdsOnly ==
    (call.op = "get_balances" /\ value.done) =>
        /\ \A i \in 1..Len(value.result) :
              value.result[i].account_id \in call.account_ids.items
        /\ GroupedIds(value.accounts_by_bank) \subseteq
              call.account_ids.items \cap
                ({value.all_accounts[i].account_id : i \in 1..Len(value.all_accounts)}
                   \cup {LinkedKey(_linked_accounts[i]) : i \in 1..Len(_linked_accounts)})

\* C34: every bank client opened by TokenService, ConsentService or the
\* operation is closed before the pass over the bank is over, however the
\* awaited calls ended; a service's client is closed when the service returns.
C34_ClientsClosed ==
    call.op = "clients" =>
        /\ call.at = "returned" => value = {}
        /\ "token" \in value => call.at = "token_await"
        /\ "consent" \in value => call.at = "consent_await"

\* a pass in which a call timed out and a consent was asked for has returned
C34_Witness ==
    /\ call.op = "clients"
    /\ call.at = "returned"
    /\ "timeout" \in Range(call.path)
    /\ "consent" \in Range(call.path)
    /\ "unparsable" \in Range(call.path)

\* C35: the Consent Store changes only through an approved consent response
\* with an id, which sets the bank's entry, or through clear_consent_id, which
\* removes the bank's entry only; a pending response, a response without id
\* or a failed request leaves every entry as it was, and the passing of time
\* changes nothing.
C35_ConsentStoreFrame ==
    [][/\ now' # now => _consent_ids' = _consent_ids
       /\ (now' = now /\ call'.op = "request_accounts_consent") =>
             IF /\ call'.token_ok
                /\ call'.answer.kind = "response"
                /\ call'.answer.resp.status = "approved"
                /\ call'.answer.resp.consent_id # None
             THEN _consent_ids' =
                     [_consent_ids EXCEPT ![call'.bank] = call'.answer.resp.consent_id]
             ELSE _consent_ids' = _consent_ids
       /\ (now' = now /\ call'.op = "clear_consent_id") =>
             _consent_ids' = [_consent_ids EXCEPT ![call'.bank] = None]
      ]_vars

\* a pending response with a consent id came back for vbank while abank's
\* consent is stored: vbank has no entry, abank's is still there
C35_Witness ==
    /\ call.op = "request_accounts_consent"
    /\ call.bank = "vbank"
    /\ call.token_ok
    /\ call.answer.kind = "response"
    /\ call.answer.resp.status = "pending"
    /\ call.answer.resp.consent_id # None
    /\ _consent_ids["vbank"] = None
    /\ _consent_ids["abank"] # None
    /\ now > 0

EntriesOf(accs, b, number) ==
    {i \in 1..Len(accs) : accs[i].bank = b /\ accs[i].account_number = number}

IdsOf(accs) == {accs[i].id : i \in 1..Len(accs)}

\* C37: after any sequence of link_account and unlink_account calls the
\* Linked Accounts hold at most one entry per (bank, account_number); linking
\* a pair that is linked keeps the number of entries and puts the new entry
\* in the old one's place; unlink_account returns true exactly when an entry
\* with the given id existed, and removes that entry and no other.
C37_OneEntryPerPair ==
    [][/\ \A i, j \in 1..Len(_linked_accounts') :
             (/\ _linked_accounts'[i].bank = _linked_accounts'[j].bank
              /\ _linked_accounts'[i].account_number =
                     _linked_accounts'[j].account_number) => i = j
       /\ call'.op = "link_account" =>
             \A i \in EntriesOf(_linked_accounts, value'.bank, value'.account_number) :
                 /\ Len(_linked_accounts') = Len(_linked_accounts)
                 /\ _linked_accounts'[i] = value'
                 /\ \A k \in 1..Len(_linked_accounts) :
                       k # i => _linked_accounts'[k] = _linked_accounts[k]
       /\ call'.op = "unlink_account" =>
             /\ value' = (call'.id \in IdsOf(_linked_accounts))
             /\ value' => Len(_linked_accounts') = Len(_linked_accounts) - 1
             /\ ~value' => _linked_accounts' = _linked_accounts
             /\ call'.id \notin IdsOf(_linked_accounts')
             /\ \A i, j \in 1..Len(_linked_accounts) :
                   (/\ i < j
                    /\ _linked_accounts[i].id # call'.id
                    /\ _linked_accounts[j].id # call'.id) =>
                      \E m, n \in 1..Len(_linked_accounts') :
                          /\ m < n
                          /\ _linked_accounts'[m] = _linked_accounts[i]
                          /\ _linked_accounts'[n] = _linked_accounts[j]
      ]_vars

\* a linked pair was linked again with another account_id: still one entry
\* for it, beside two other entries
C37_Witness ==
    /\ call.op = "link_account"
    /\ Len(_linked_accounts) = 3
    /\ _linked_accounts[1] = value
    /\ value.account_id = "a2"
    /\ value.bank = "vbank"
    /\ value.account_number = "n1"

\* C38: RateLimitMiddleware forgets requests older than one minute: a request
\* of an IP whose last request was rejected with 429 at least 60 seconds
\* earlier is admitted, and the admitted requests of an IP in the 60 seconds
\* up to any request never number more than requests_per_minute.
C38_RateLimitForgets ==
    [][(call'.op = "dispatch" /\ now' = now) =>
          /\ (/\ call'.before.status = 429
              /\ now - call'.before.time >= RateWindow) => call'.status = 200
          /\ \A ip \in ClientIps :
                Cardinality({i \in 1..Len(value'.admitted[ip]) :
                                now - value'.admitted[ip][i] < RateWindow})
                    <= requests_per_minute
      ]_vars

====
